---- MODULE Spec2Model ----
(***************************************************************************)
(* A model of the minegauler core: the Minefield constructors              *)
(* (core/minefield.py) over the Grid of shared/utils.py, and the Game /    *)
(* Controller state machine (core/engine.py).                              *)
(*                                                                         *)
(* Coordinates are pairs <<x, y>>.  A grid is a function from the          *)
(* coordinates of an x_size by y_size rectangle to its cells.  Cell        *)
(* contents are records [t |-> <type>, n |-> <number>].                    *)
(***************************************************************************)
EXTENDS Integers, Sequences, FiniteSets, TLC

VARIABLES
    args,       \* the arguments of the Minefield constructor call
    pc,         \* "start" before the call, "done" after it returned, "raised" after it raised
    exc,        \* the exception a raised call ended with ("none" otherwise)
    mf,         \* the constructed Minefield object
    popRule,    \* which element set.pop() hands out ("first" or "last" of the coordinate order)
    game,       \* the Game object
    ncalls,     \* the number of calls made on the Game or on the Controller
    call,       \* the last call made on the Game or the Controller: its arguments, the game before it
    ctrl,       \* the Controller: its options, its last update and what it has sent to the listeners
    caller,     \* the Caller: its registered listeners and what the last notification did
    gridObj,    \* the Grid object: its sizes and its cells
    search,     \* the local variables of _find_openings while it runs
    widget      \* the MinefieldWidget: its mouse state, its sunken cells and the calls it made

vars == <<args, pc, exc, mf, popRule, game, ncalls, call, ctrl, caller, gridObj, search,
         widget>>

(***************************************************************************)
(* Bounds of the model.                                                    *)
(***************************************************************************)
\* Random generation (Minefield(x, y, mines=<int>)): grid sizes and mine count.
GenMaxX == 3
GenMaxY == 2
GenMaxMines == 2
\* The coordinates safe_coords is drawn from; the grids with one row or one
\* column do not hold all of them.
SafePool == {<<0, 0>>, <<1, 0>>, <<0, 1>>}
\* Largest per_cell value tried by either constructor.
MaxPerCell == 2
\* Games: the grid sizes played on, the largest mine count and number of
\* lives, and the number of calls made on one game.
GameGrids == {<<4, 1>>, <<2, 2>>}
GameMaxMines == 2
MaxLives == 2
MaxCalls == 3
\* Explicit layouts (Minefield.from_grid): grid sizes and the total number of
\* mines of a sparse layout.
LayMaxX == 3
LayMaxY == 3
LayMaxMines == 2
\* The small grids, which are tried with every layout of up to MaxPerCell
\* mines per cell.
SmallGrids == {g \in (1..6) \X (1..6) : g[1] * g[2] <= 6}

(***************************************************************************)
(* Grid (shared/utils.py)                                                  *)
(***************************************************************************)
Min(a, b) == IF a < b THEN a ELSE b
Max(a, b) == IF a > b THEN a ELSE b

\* Grid.all_coords: [(x, y) for x in range(x_size) for y in range(y_size)].
all_coords(x_size, y_size) ==
    [i \in 1..(x_size * y_size) |-> <<(i - 1) \div y_size, (i - 1) % y_size>>]

\* The coordinates of the grid, as a set.
CoordSet(x_size, y_size) == (0..(x_size - 1)) \X (0..(y_size - 1))

\* Grid.__init__: every cell holds the fill value.
Grid(x_size, y_size, fill) == [c \in CoordSet(x_size, y_size) |-> fill]

\* range(lo, hi) as a sequence.
RangeSeq(lo, hi) == [i \in 1..Max(0, hi - lo) |-> lo + i - 1]

RECURSIVE SeqRemove(_, _)
\* list.remove(e): the sequence without the first occurrence of e.
SeqRemove(s, e) ==
    IF s = <<>> THEN <<>>
    ELSE IF Head(s) = e THEN Tail(s)
    ELSE <<Head(s)>> \o SeqRemove(Tail(s), e)

RECURSIVE NbrColumn(_, _)
\* The inner loop of get_nbrs: (i, j) for each j of the sequence js.
NbrColumn(i, js) ==
    IF js = <<>> THEN <<>> ELSE <<<<i, Head(js)>>>> \o NbrColumn(i, Tail(js))

RECURSIVE NbrBlock(_, _)
\* The outer loop of get_nbrs over the sequence is of x values.
NbrBlock(is, js) ==
    IF is = <<>> THEN <<>> ELSE NbrColumn(Head(is), js) \o NbrBlock(Tail(is), js)

\* Grid.get_nbrs, mutated: the four orthogonal neighbours only.
get_nbrs_orthogonal(x_size, y_size, coord, include_origin) ==
    LET x == coord[1]
        y == coord[2]
        nbrs == NbrBlock(RangeSeq(Max(0, x - 1), Min(x_size, x + 2)),
                         RangeSeq(Max(0, y - 1), Min(y_size, y + 2)))
        keep == SelectSeq(nbrs, LAMBDA c: c[1] = x \/ c[2] = y)
    IN  IF include_origin THEN keep ELSE SeqRemove(keep, coord)

\* Grid.get_nbrs: the list of the coordinates of the neighbouring cells.  The
\* Minefield passes the coordinate as one tuple (self.get_nbrs(c)).
get_nbrs(x_size, y_size, coord, include_origin) ==
    LET x == coord[1]
        y == coord[2]
        nbrs == NbrBlock(RangeSeq(Max(0, x - 1), Min(x_size, x + 2)),
                         RangeSeq(Max(0, y - 1), Min(y_size, y + 2)))
    IN  IF include_origin THEN nbrs ELSE SeqRemove(nbrs, coord)

\* The elements of a sequence.
Range(s) == {s[i] : i \in DOMAIN s}

RECURSIVE SumOver(_, _)
\* The sum of f over the finite set S.
SumOver(f, S) ==
    IF S = {} THEN 0
    ELSE LET c == CHOOSE c \in S : TRUE IN f[c] + SumOver(f, S \ {c})

\* set(self.get_nbrs(coord)) as the minefield uses it.
NbrSet(x_size, y_size, coord) == Range(get_nbrs(x_size, y_size, coord, FALSE))

(***************************************************************************)
(* Cell contents (minegauler.types)                                        *)
(***************************************************************************)
CellUnclicked == [t |-> "Unclicked", n |-> 0]
CellNum(n) == [t |-> "Num", n |-> n]
CellFlag(n) == [t |-> "Flag", n |-> n]
CellMine(n) == [t |-> "Mine", n |-> n]
CellHitMine(n) == [t |-> "HitMine", n |-> n]
CellWrongFlag(n) == [t |-> "WrongFlag", n |-> n]

(***************************************************************************)
(* Minefield (core/minefield.py)                                           *)
(***************************************************************************)
\* The value of mf before a constructor has run.
NoMinefield ==
    [x_size |-> 0, y_size |-> 0, per_cell |-> 0, nr_mines |-> 0, grid |-> <<>>,
     mine_coords |-> <<>>, completed_board |-> <<>>, openings |-> <<>>, bbbv |-> 0]

\* The number of entries of the sequence s that equal e.
Count(s, e) == Cardinality({i \in DOMAIN s : s[i] = e})

\* list * n: the sequence repeated n times.
Repeat(s, n) == [i \in 1..(Len(s) * n) |-> s[((i - 1) % Len(s)) + 1]]

\* The sequence without its i-th entry (list.pop(i - 1)).
PopIndex(s, i) == [j \in 1..(Len(s) - 1) |-> IF j < i THEN s[j] ELSE s[j + 1]]

\* check_enough_space, mutated: compares with >= instead of >.
check_enough_space_strict(x_size, y_size, mines, per_cell, nr_safe_cells) ==
    LET mine_spaces == x_size * y_size - nr_safe_cells
    IN  ~(mines >= mine_spaces * per_cell)

\* check_enough_space, mutated: the safe cells are not taken off the grid.
check_enough_space_nosafe(x_size, y_size, mines, per_cell, nr_safe_cells) ==
    LET mine_spaces == x_size * y_size
    IN  ~(mines > mine_spaces * per_cell)

\* Minefield.check_enough_space: TRUE when it returns, FALSE when it raises
\* ValueError("Number of mines too high ...").
check_enough_space(x_size, y_size, mines, per_cell, nr_safe_cells) ==
    LET mine_spaces == x_size * y_size - nr_safe_cells
    IN  ~(mines > mine_spaces * per_cell)

\* The coordinates mines can be placed in, mutated: safe_coords are not left out.
avble_coords_unfiltered(x_size, y_size, safe_given, safe_coords) ==
    all_coords(x_size, y_size)

\* The coordinates mines can be placed in (_choose_mine_coords, the list
\* avble_coords before the pop): safe_given is FALSE for safe_coords=None.
avble_coords(x_size, y_size, safe_given, safe_coords) ==
    IF ~safe_given
    THEN all_coords(x_size, y_size)
    ELSE SelectSeq(all_coords(x_size, y_size), LAMBDA c: c \notin safe_coords)

\* "Make sure there is at least one safe cell", mutated: nothing is popped.
ensure_safe_cell_nopop(avble, nr_cells) == {avble}

\* "Make sure there is at least one safe cell": when no cell was left out, one
\* entry, at index rnd.randint(0, len - 1), is popped.  The set of lists that
\* can result.
ensure_safe_cell(avble, nr_cells) ==
    IF Len(avble) = nr_cells
    THEN {PopIndex(avble, i) : i \in 1..Len(avble)}
    ELSE {avble}

\* rnd.shuffle(pool) followed by pool[:n]: the sequences that are the first n
\* entries of some permutation of pool (all of it when n exceeds its length).
ShufflePrefixes(pool, n) ==
    LET k == Min(n, Len(pool))
        entries == Range(pool)
        avble == [c \in entries |-> Count(pool, c)]
    IN  {s \in [1..k -> entries] : \A i \in 1..k : Count(s, s[i]) <= avble[s[i]]}

\* The nr_safe_cells argument _choose_mine_coords passes on:
\* len(set(safe_coords)) if safe_coords else 1.
NrSafeCells(safe_given, safe_coords) ==
    IF safe_given /\ safe_coords # {} THEN Cardinality(safe_coords) ELSE 1

\* Minefield._choose_mine_coords after the capacity check: the set of lists
\* the random choice can return.
_choose_mine_coords(x_size, y_size, nr_mines, per_cell, safe_given, safe_coords) ==
    UNION {ShufflePrefixes(Repeat(avble, per_cell), nr_mines) :
             avble \in ensure_safe_cell(
                          avble_coords(x_size, y_size, safe_given, safe_coords),
                          x_size * y_size)}

\* The overflow test of the placing loop, mutated: one mine too late.
cell_is_full_late(count, per_cell) == count > per_cell

\* The overflow test of the placing loop: self[c] == self.per_cell.
cell_is_full(count, per_cell) == count = per_cell

RECURSIVE place_mines(_, _, _)
\* Minefield.__init__, the loop over mine_coords: each coordinate adds one mine
\* to its cell; a cell already holding per_cell mines raises ValueError.
place_mines(grid, mine_coords, per_cell) ==
    IF mine_coords = <<>> THEN [raised |-> FALSE, grid |-> grid]
    ELSE LET c == Head(mine_coords)
         IN  IF cell_is_full(grid[c], per_cell)
             THEN [raised |-> TRUE, grid |-> grid]
             ELSE place_mines([grid EXCEPT ![c] = @ + 1], Tail(mine_coords), per_cell)

\* Minefield.cell_contains_mine.
cell_contains_mine(grid, coord) == grid[coord] > 0

\* What a mine cell adds to a neighbouring number, mutated: one per mined cell.
nbr_increment_one(mines) == 1

\* What a mine cell adds to a neighbouring number: its mine count.
nbr_increment(mines) == mines

RECURSIVE add_to_nbrs(_, _, _, _)
\* _calc_completed_board, the inner loop: the neighbours that hold no mine
\* have their number incremented.
add_to_nbrs(board, nbrs, mines, grid) ==
    IF nbrs = <<>> THEN board
    ELSE LET nbr == Head(nbrs)
             next == IF ~cell_contains_mine(grid, nbr)
                     THEN [board EXCEPT ![nbr] = CellNum(@.n + nbr_increment(mines))]
                     ELSE board
         IN  add_to_nbrs(next, Tail(nbrs), mines, grid)

\* The completed-board value of a mine cell, mutated: Mine instead of Flag.
completed_mine_cell_mine(mines) == CellMine(mines)

\* What the completed board shows in a cell holding mines.
completed_mine_cell(mines) == CellFlag(mines)

RECURSIVE completed_board_loop(_, _, _, _, _)
\* _calc_completed_board, the loop over all_coords.
completed_board_loop(board, coords, grid, x_size, y_size) ==
    IF coords = <<>> THEN board
    ELSE LET c == Head(coords)
             mines == grid[c]
             next == IF mines > 0
                     THEN add_to_nbrs([board EXCEPT ![c] = completed_mine_cell(mines)],
                                      get_nbrs(x_size, y_size, c, FALSE), mines, grid)
                     ELSE board
         IN  completed_board_loop(next, Tail(coords), grid, x_size, y_size)

\* Minefield._calc_completed_board.
_calc_completed_board(self) ==
    completed_board_loop(Grid(self.x_size, self.y_size, CellNum(0)),
                         all_coords(self.x_size, self.y_size),
                         self.grid, self.x_size, self.y_size)

\* The order set.pop() is modelled with.
CoordLess(a, b) == a[1] < b[1] \/ (a[1] = b[1] /\ a[2] < b[2])

\* set.pop(): an arbitrary element; the model takes the first or the last of
\* the coordinate order, as popRule says.
SetPop(S) ==
    IF popRule = "first"
    THEN CHOOSE c \in S : \A d \in S \ {c} : CoordLess(c, d)
    ELSE CHOOSE c \in S : \A d \in S \ {c} : CoordLess(d, c)

\* _find_openings, mutated: only the blank neighbours join the opening.
opening_add_blank(opening, nbrs, blank) == opening \cup blank

\* _find_openings: opening |= nbrs.
opening_add(opening, nbrs, blank) == opening \cup nbrs

RECURSIVE grow_opening(_, _, _)
\* _find_openings, the inner while loop: check holds the coordinates whose
\* neighbours remain to be looked at.
grow_opening(self, opening, check) ==
    IF check = {} THEN opening
    ELSE LET coord == SetPop(check)
             nbrs == NbrSet(self.x_size, self.y_size, coord)
             blank == {c \in nbrs \ opening : self.completed_board[c] = CellNum(0)}
         IN  grow_opening(self, opening_add(opening, nbrs, blank), (check \ {coord}) \cup blank)

\* _find_openings, mutated: the cells of a found opening stay to be checked.
blanks_after_keep(blanks, opening) == blanks

\* _find_openings: blanks_to_check -= opening.
blanks_after(blanks, opening) == blanks \ opening

RECURSIVE openings_loop(_, _, _)
\* _find_openings, the outer while loop.  An opening, a sorted list of
\* coordinates in the code, is the set of its coordinates here.
openings_loop(self, openings, blanks_to_check) ==
    IF blanks_to_check = {} THEN openings
    ELSE LET orig_coord == SetPop(blanks_to_check)
             opening == grow_opening(self, {orig_coord}, {orig_coord})
         IN  openings_loop(self, Append(openings, opening),
                           blanks_after(blanks_to_check \ {orig_coord}, opening))

\* Minefield._find_openings.
_find_openings(self) ==
    openings_loop(self, <<>>,
                  {c \in CoordSet(self.x_size, self.y_size) :
                       self.completed_board[c] = CellNum(0)})

\* _calc_3bv, mutated: counts the mines, not the cells holding mines.
_calc_3bv_per_mine(self) ==
    Len(self.openings)
      + self.x_size * self.y_size
      - Len(self.mine_coords)
      - Cardinality(UNION Range(self.openings))

\* Minefield._calc_3bv.
_calc_3bv(self) ==
    Len(self.openings)
      + self.x_size * self.y_size
      - Cardinality(Range(self.mine_coords))
      - Cardinality(UNION Range(self.openings))

\* Minefield.__init__ from the placing loop on, given the list of mine
\* coordinates: [raised, mf].
minefield_init(x_size, y_size, nr_mines, per_cell, mine_coords) ==
    LET placed == place_mines(Grid(x_size, y_size, 0), mine_coords, per_cell)
        m0 == [NoMinefield EXCEPT !.x_size = x_size, !.y_size = y_size,
                                  !.per_cell = per_cell, !.nr_mines = nr_mines,
                                  !.grid = placed.grid]
        m1 == [m0 EXCEPT !.mine_coords = mine_coords]
        m2 == [m1 EXCEPT !.completed_board = _calc_completed_board(m1)]
        m3 == [m2 EXCEPT !.openings = _find_openings(m2)]
        m4 == [m3 EXCEPT !.bbbv = _calc_3bv(m3)]
    IN  IF placed.raised THEN [raised |-> TRUE, mf |-> m0]
        ELSE [raised |-> FALSE, mf |-> m4]

RECURSIVE grid_mine_coords(_, _)
\* Minefield.from_grid: each coordinate of all_coords, once per mine in it.
grid_mine_coords(coords, grid) ==
    IF coords = <<>> THEN <<>>
    ELSE [i \in 1..grid[Head(coords)] |-> Head(coords)]
           \o grid_mine_coords(Tail(coords), grid)

(***************************************************************************)
(* Constructing minefields                                                 *)
(***************************************************************************)
\* The value of game while only a Minefield is constructed.
NoGame == [state |-> "NONE"]

\* The value of call before a call is made on a Game.
NoCall == [op |-> "none"]

\* The value of ctrl while no Controller is constructed.
NoCtrl == [opts |-> <<>>]

\* The value of caller while no Caller is constructed.
NoCaller == [listeners |-> <<>>]

\* The value of gridObj while no Grid is constructed.
NoGrid == [x_size |-> 0, y_size |-> 0, cells |-> <<>>]

\* The value of search while _find_openings is not running.
NoSearch == [openings |-> <<>>]

\* The value of widget while no MinefieldWidget is constructed.
NoWidget == [board |-> <<>>]

\* The safe_coords arguments tried: None, or a collection of coordinates.
SafeChoices ==
    {[given |-> FALSE, coords |-> {}]}
      \cup {[given |-> TRUE, coords |-> s] : s \in SUBSET SafePool}

\* The arguments of Minefield(x_size, y_size, mines=<int>, per_cell=...,
\* safe_coords=...).  safe_coords is None (safe_given FALSE) or a collection
\* of coordinates, which need not all lie in the grid.
GenArgs ==
    {[ctor |-> "count", x_size |-> x, y_size |-> y, mines |-> m, grid |-> <<>>,
      per_cell |-> p, safe_given |-> sf.given, safe_coords |-> sf.coords] :
        x \in 1..GenMaxX, y \in 1..GenMaxY, m \in 0..GenMaxMines,
        p \in 1..MaxPerCell, sf \in SafeChoices}

\* The grid of counts that holds one mine per entry of the sequence s.
LayoutOf(x_size, y_size, s) == [c \in CoordSet(x_size, y_size) |-> Count(s, c)]

\* Layouts with at most LayMaxMines mines in all: each of LayMaxMines mines
\* lies in a cell of the grid or, at <<-1, -1>>, is left out.
SparseLayouts(x_size, y_size) ==
    {LayoutOf(x_size, y_size, s) :
        s \in [1..LayMaxMines -> CoordSet(x_size, y_size) \cup {<<-1, -1>>}]}

\* Layouts with the same number of mines in every cell, or in every cell but one.
DenseLayouts(x_size, y_size) ==
    {[c \in CoordSet(x_size, y_size) |-> k] : k \in 1..MaxPerCell}
      \cup {[c \in CoordSet(x_size, y_size) |-> IF c = b THEN 0 ELSE k] :
              b \in CoordSet(x_size, y_size), k \in 1..MaxPerCell}

\* Every layout with up to MaxPerCell mines per cell, for the small grids.
FullLayouts(x_size, y_size) ==
    IF <<x_size, y_size>> \in SmallGrids
    THEN [CoordSet(x_size, y_size) -> 0..MaxPerCell]
    ELSE {}

\* The 4x4 layout with one mine at (0,0) and one at (3,3).
CornerLayout == [c \in CoordSet(4, 4) |-> IF c \in {<<0, 0>>, <<3, 3>>} THEN 1 ELSE 0]

\* Layouts tried whatever the bounds.
FixtureLayouts(x_size, y_size) ==
    IF <<x_size, y_size>> = <<4, 4>> THEN {CornerLayout} ELSE {}

\* The grid sizes layouts are tried for.
LayoutGrids == ((1..LayMaxX) \X (1..LayMaxY)) \cup SmallGrids \cup {<<4, 4>>}

\* The layouts tried for an x_size by y_size grid.
LayoutsFor(x_size, y_size) ==
    IF x_size <= LayMaxX /\ y_size <= LayMaxY
    THEN SparseLayouts(x_size, y_size) \cup DenseLayouts(x_size, y_size)
           \cup FullLayouts(x_size, y_size) \cup FixtureLayouts(x_size, y_size)
    ELSE FullLayouts(x_size, y_size) \cup FixtureLayouts(x_size, y_size)

\* The arguments of Minefield.from_grid(grid, per_cell=...).
LayoutArgs(size, g, p) ==
    [ctor |-> "grid", x_size |-> size[1], y_size |-> size[2], mines |-> 0, grid |-> g,
     per_cell |-> p, safe_given |-> FALSE, safe_coords |-> {}]

\* Before Minefield(x_size, y_size, mines=<int>, ...) is called.
GenInit ==
    /\ args \in GenArgs
    /\ pc = "start"
    /\ exc = "none"
    /\ mf = NoMinefield
    /\ popRule = "first"
    /\ game = NoGame
    /\ ncalls = 0
    /\ call = NoCall
    /\ ctrl = NoCtrl
    /\ caller = NoCaller
    /\ gridObj = NoGrid
    /\ search = NoSearch
    /\ widget = NoWidget

\* Before Minefield.from_grid(grid, per_cell=...) is called.
LayoutInit ==
    /\ \E size \in LayoutGrids, p \in 1..MaxPerCell :
          \E g \in LayoutsFor(size[1], size[2]) : args = LayoutArgs(size, g, p)
    /\ pc = "start"
    /\ exc = "none"
    /\ mf = NoMinefield
    /\ popRule \in {"first", "last"}
    /\ game = NoGame
    /\ ncalls = 0
    /\ call = NoCall
    /\ ctrl = NoCtrl
    /\ caller = NoCaller
    /\ gridObj = NoGrid
    /\ search = NoSearch
    /\ widget = NoWidget

\* Minefield.__init__ with mines an int: the capacity check, the random
\* choice of the mine coordinates, the placing loop and the derived data.
NewMinefield ==
    /\ pc = "start"
    /\ args.ctor = "count"
    /\ IF ~check_enough_space(args.x_size, args.y_size, args.mines, args.per_cell,
                              NrSafeCells(args.safe_given, args.safe_coords))
       THEN /\ pc' = "raised"
            /\ exc' = "ValueError: number of mines too high"
            /\ mf' = mf
       ELSE \E mine_coords \in _choose_mine_coords(args.x_size, args.y_size, args.mines,
                                   args.per_cell, args.safe_given, args.safe_coords) :
               LET r == minefield_init(args.x_size, args.y_size, args.mines,
                                       args.per_cell, mine_coords)
               IN  IF r.raised
                   THEN /\ pc' = "raised"
                        /\ exc' = "ValueError: too many mines at coord"
                        /\ mf' = mf
                   ELSE /\ pc' = "done"
                        /\ exc' = "none"
                        /\ mf' = r.mf
    /\ UNCHANGED <<args, popRule, game, ncalls, call, ctrl, caller, gridObj, search, widget>>

\* Minefield.from_grid: the list of mine coordinates of the grid, then
\* Minefield.__init__ with that list.
FromGrid ==
    /\ pc = "start"
    /\ args.ctor = "grid"
    /\ LET mine_coords == grid_mine_coords(all_coords(args.x_size, args.y_size), args.grid)
           r == minefield_init(args.x_size, args.y_size, Len(mine_coords),
                               args.per_cell, mine_coords)
       IN  IF r.raised
           THEN /\ pc' = "raised"
                /\ exc' = "ValueError: too many mines at coord"
                /\ mf' = mf
           ELSE /\ pc' = "done"
                /\ exc' = "none"
                /\ mf' = r.mf
    /\ UNCHANGED <<args, popRule, game, ncalls, call, ctrl, caller, gridObj, search, widget>>

GenNext == NewMinefield
SpecGen == GenInit /\ [][GenNext]_vars

LayoutNext == FromGrid
SpecLayout == LayoutInit /\ [][LayoutNext]_vars

(***************************************************************************)
(* Game (core/game.py, which the repository's engine.py and game_test.py   *)
(* use; its operations are modelled from the specification, section 4.4)   *)
(***************************************************************************)
\* GameState.finished(), mutated: only a won game counts as finished.
finished_won_only(state) == state = "WON"

\* GameState.finished().
finished(state) == state \in {"WON", "LOST"}

\* The empty dict of cell updates.
NoCells == [c \in {} |-> CellUnclicked]

\* The value of a time that is not set (None).
NoTime == -1

\* Game.__init__: a Ready game on the minefield m with an all-Unclicked board.
Game(m, lives, first_success) ==
    [x_size |-> m.x_size, y_size |-> m.y_size, mines |-> m.nr_mines,
     per_cell |-> m.per_cell, lives |-> lives, first_success |-> first_success,
     mf |-> m, board |-> Grid(m.x_size, m.y_size, CellUnclicked),
     state |-> "READY", mines_remaining |-> m.nr_mines, lives_remaining |-> lives,
     timer |-> "unset", start_time |-> NoTime, end_time |-> NoTime]

\* The minefields Minefield(x_size, y_size, mines=mines, per_cell=per_cell,
\* safe_coords=...) can return (none when it raises).
Minefields(x_size, y_size, mines, per_cell, safe_given, safe_coords) ==
    IF ~check_enough_space(x_size, y_size, mines, per_cell,
                           NrSafeCells(safe_given, safe_coords))
    THEN {}
    ELSE {minefield_init(x_size, y_size, mines, per_cell, mine_coords).mf :
             mine_coords \in _choose_mine_coords(x_size, y_size, mines, per_cell,
                                                 safe_given, safe_coords)}

\* One cell of the board set, and recorded in the dict of updates.
set_cell(st, c, v) ==
    [game |-> [st.game EXCEPT !.board[c] = v],
     cells |-> [d \in DOMAIN st.cells \cup {c} |-> IF d = c THEN v ELSE st.cells[d]]]

\* The board replaced by new, the cells that differ recorded as updates.
set_board(st, new) ==
    LET changed == {c \in DOMAIN new : new[c] # st.game.board[c]}
    IN  [game |-> [st.game EXCEPT !.board = new],
         cells |-> [d \in DOMAIN st.cells \cup changed |->
                       IF d \in changed THEN new[d] ELSE st.cells[d]]]

\* The state a game is left in by a mine hit with no life to spare, mutated:
\* the game is made ready again.
state_after_loss_ready == "READY"

\* The state a game is left in by a mine hit with no life to spare.
state_after_loss == "LOST"

\* lose_game, mutated: the flags are left as they are.
lose_game_keep_flags(st, coord) ==
    LET g == st.game
        shown == [c \in DOMAIN g.board |->
                    IF c = coord THEN CellHitMine(g.mf.grid[c])
                    ELSE IF g.board[c] = CellUnclicked /\ g.mf.grid[c] > 0
                         THEN CellMine(g.mf.grid[c])
                    ELSE g.board[c]]
        st1 == set_board(st, shown)
    IN  [st1 EXCEPT !.game.state = state_after_loss,
                    !.game.lives_remaining = 0,
                    !.game.timer = "stopped"]

\* The selected cell holds mines and no life is to spare: it shows HitMine,
\* the other unflagged mine cells show Mine, the flags with a wrong count
\* show WrongFlag, and the game is lost.
lose_game(st, coord) ==
    LET g == st.game
        shown == [c \in DOMAIN g.board |->
                    IF c = coord THEN CellHitMine(g.mf.grid[c])
                    ELSE IF g.board[c] = CellUnclicked /\ g.mf.grid[c] > 0
                         THEN CellMine(g.mf.grid[c])
                    ELSE IF g.board[c].t = "Flag" /\ g.board[c].n # g.mf.grid[c]
                         THEN CellWrongFlag(g.board[c].n)
                    ELSE g.board[c]]
        st1 == set_board(st, shown)
    IN  [st1 EXCEPT !.game.state = state_after_loss,
                    !.game.lives_remaining = 0,
                    !.game.timer = "stopped"]

\* The selected cell holds mines: with a life to spare the cell shows HitMine
\* and a life is lost, otherwise the game is lost.
hit_mine(st, coord) ==
    IF st.game.lives_remaining > 1
    THEN [set_cell(st, coord, CellHitMine(st.game.mf.grid[coord]))
            EXCEPT !.game.lives_remaining = @ - 1]
    ELSE lose_game(st, coord)

\* The selected cell holds no mine: it shows its number, and a zero cascades
\* over the Unclicked cells of its opening.
reveal_safe(st, coord) ==
    LET g == st.game
        num == g.mf.completed_board[coord]
        opening == UNION {g.mf.openings[i] : i \in {j \in DOMAIN g.mf.openings :
                                                     coord \in g.mf.openings[j]}}
        cascade == IF num = CellNum(0)
                   THEN {c \in opening : g.board[c] = CellUnclicked} \cup {coord}
                   ELSE {coord}
    IN  set_board(st, [c \in DOMAIN g.board |->
                          IF c \in cascade THEN g.mf.completed_board[c] ELSE g.board[c]])

\* The reveal of one Unclicked cell.
select_cell_action(st, coord) ==
    IF st.game.mf.grid[coord] > 0 THEN hit_mine(st, coord) ELSE reveal_safe(st, coord)

\* The win check after a reveal: with every mine-free cell revealed the game
\* is won and every mine cell shows Flag with its mine count.
check_for_completion(st) ==
    LET g == st.game
    IN  IF ~finished(g.state)
           /\ \A c \in DOMAIN g.board : g.mf.grid[c] = 0 => g.board[c].t = "Num"
        THEN [set_board(st, [c \in DOMAIN g.board |->
                                IF g.mf.grid[c] > 0
                                THEN CellFlag(g.mf.grid[c]) ELSE g.board[c]])
                EXCEPT !.game.state = "WON",
                       !.game.mines_remaining = 0,
                       !.game.timer = "stopped"]
        ELSE st

\* The games the first select_cell of a Ready game starts: with first_success
\* and mines in the selected cell the minefield is generated again with
\* safe_coords = {coord}.
start_game(g, coord) ==
    IF g.state # "READY" THEN {g}
    ELSE IF g.first_success /\ g.mf.grid[coord] > 0
    THEN {[g EXCEPT !.mf = m, !.state = "ACTIVE", !.timer = "running"] :
             m \in Minefields(g.x_size, g.y_size, g.mines, g.per_cell, TRUE, {coord})}
    ELSE {[g EXCEPT !.state = "ACTIVE", !.timer = "running"]}

\* Game.select_cell: the outcomes [game, cells] the call can have.
select_cell(g, coord) ==
    IF finished(g.state) \/ g.board[coord] # CellUnclicked
    THEN {[game |-> g, cells |-> NoCells]}
    ELSE {check_for_completion(select_cell_action([game |-> g1, cells |-> NoCells], coord)) :
             g1 \in start_game(g, coord)}

\* The sum of the flag counts of the cells of S.
FlagSum(board, S) ==
    SumOver([c \in DOMAIN board |-> IF board[c].t = "Flag" THEN board[c].n ELSE 0], S)

RECURSIVE chord_loop(_, _)
\* Game.chord_on_cell, the loop over the neighbours: each Unclicked one is
\* revealed as by select_cell, until the game is finished.
chord_loop(st, nbrs) ==
    IF nbrs = <<>> THEN st
    ELSE IF ~finished(st.game.state) /\ st.game.board[Head(nbrs)] = CellUnclicked
    THEN chord_loop(select_cell_action(st, Head(nbrs)), Tail(nbrs))
    ELSE chord_loop(st, Tail(nbrs))

\* Game.chord_on_cell, mutated: the neighbouring flags are not counted.
chord_on_cell_any_flags(g, coord) ==
    LET nbrs == get_nbrs(g.x_size, g.y_size, coord, FALSE)
    IN  IF \/ finished(g.state)
           \/ g.board[coord].t # "Num"
           \/ g.board[coord].n = 0
        THEN [game |-> g, cells |-> NoCells]
        ELSE check_for_completion(chord_loop([game |-> g, cells |-> NoCells], nbrs))

\* Game.chord_on_cell: [game, cells].
chord_on_cell(g, coord) ==
    LET nbrs == get_nbrs(g.x_size, g.y_size, coord, FALSE)
    IN  IF \/ finished(g.state)
           \/ g.board[coord].t # "Num"
           \/ g.board[coord].n = 0
           \/ FlagSum(g.board, Range(nbrs)) # g.board[coord].n
        THEN [game |-> g, cells |-> NoCells]
        ELSE check_for_completion(chord_loop([game |-> g, cells |-> NoCells], nbrs))

\* Game.set_cell_flags, mutated: the flags the cell had are not given back.
set_cell_flags_no_refund(g, coord, nr_flags) ==
    LET old == g.board[coord]
        new == IF nr_flags = 0 THEN CellUnclicked ELSE CellFlag(nr_flags)
    IN  IF finished(g.state) \/ old.t \notin {"Unclicked", "Flag"} \/ new = old
        THEN [game |-> g, cells |-> NoCells]
        ELSE [set_cell([game |-> g, cells |-> NoCells], coord, new)
                EXCEPT !.game.mines_remaining = @ - nr_flags]

\* Game.set_cell_flags: [game, cells].
set_cell_flags(g, coord, nr_flags) ==
    LET old == g.board[coord]
        new == IF nr_flags = 0 THEN CellUnclicked ELSE CellFlag(nr_flags)
    IN  IF finished(g.state) \/ old.t \notin {"Unclicked", "Flag"} \/ new = old
        THEN [game |-> g, cells |-> NoCells]
        ELSE [set_cell([game |-> g, cells |-> NoCells], coord, new)
                EXCEPT !.game.mines_remaining = @ + old.n - nr_flags]

\* The clock readings of a call made at time now: start_time is set by the
\* call that takes the game out of Ready, end_time by the call that finishes it.
stamp(before, after, now) ==
    [after EXCEPT !.start_time = IF before.state = "READY" /\ after.state # "READY"
                                 THEN now ELSE @,
                  !.end_time = IF ~finished(before.state) /\ finished(after.state)
                               THEN now ELSE @]

\* Game.get_elapsed at time now: end_time - start_time once finished,
\* now - start_time while Active, None while Ready.
get_elapsed(g, now) ==
    IF finished(g.state) THEN g.end_time - g.start_time
    ELSE IF g.state = "READY" THEN NoTime
    ELSE now - g.start_time

(***************************************************************************)
(* Properties of the constructed minefield                                 *)
(***************************************************************************)
\* The coordinates of the constructed minefield.
MfCoords == CoordSet(mf.x_size, mf.y_size)

\* The cells of the constructed minefield that hold at least one mine.
MineCells == {c \in MfCoords : mf.grid[c] > 0}

\* Two different cells within Chebyshev distance 1.
Adjacent(a, b) ==
    /\ a # b
    /\ a[1] - b[1] \in -1..1
    /\ a[2] - b[2] \in -1..1

\* The sum of the mine counts of the cells next to c.
NbrMineSum(c) == SumOver(mf.grid, {d \in MfCoords : Adjacent(c, d)})

\* The mine-free cells with no mine next to them.
ZeroCells == {c \in MfCoords : mf.grid[c] = 0 /\ NbrMineSum(c) = 0}

RECURSIVE ZeroRegion(_)
\* The zero cells connected to those of S through adjacent zero cells.
ZeroRegion(S) ==
    LET T == S \cup {d \in ZeroCells : \E c \in S : Adjacent(c, d)}
    IN  IF T = S THEN S ELSE ZeroRegion(T)

\* The 8-connected components of the zero cells.
ZeroRegions == {ZeroRegion({c}) : c \in ZeroCells}

\* The cells a cascade reveals: the zero cells and the cells next to one.
CascadeCells == ZeroCells \cup {d \in MfCoords : \E c \in ZeroCells : Adjacent(c, d)}

\* The capacity the claim states: (x_size*y_size - safe_n) * per_cell.
StatedCapacity ==
    (args.x_size * args.y_size
       - (IF args.safe_given /\ args.safe_coords # {}
          THEN Cardinality(args.safe_coords) ELSE 1)) * args.per_cell

\* C1: a minefield generated from a mine count has nr_mines equal to the sum
\* of its cells' mine counts and to len(mine_coords), and no cell holds more
\* than per_cell mines.
C1_GeneratedCounts ==
    (pc = "done" /\ args.ctor = "count") =>
        /\ mf.nr_mines = SumOver(mf.grid, MfCoords)
        /\ mf.nr_mines = Len(mf.mine_coords)
        /\ \A c \in MfCoords : mf.grid[c] <= mf.per_cell

\* A generated minefield with two mines stacked in one cell.
C1_Witness ==
    /\ pc = "done"
    /\ args.ctor = "count"
    /\ mf.nr_mines = 2
    /\ \E c \in MfCoords : mf.grid[c] = 2

\* C2: with safe coordinates given no mine lies in one of them; with none
\* given (None or empty) some cell of the grid holds no mine.
C2_SafeCells ==
    (pc = "done" /\ args.ctor = "count") =>
        IF args.safe_given /\ args.safe_coords # {}
        THEN \A c \in args.safe_coords \cap MfCoords : mf.grid[c] = 0
        ELSE \E c \in MfCoords : mf.grid[c] = 0

\* A minefield filled to its capacity around a safe coordinate of the grid.
C2_Witness ==
    /\ pc = "done"
    /\ args.ctor = "count"
    /\ args.safe_given
    /\ args.safe_coords # {}
    /\ args.safe_coords \subseteq MfCoords
    /\ args.mines > 0
    /\ \A c \in MfCoords \ args.safe_coords : mf.grid[c] = mf.per_cell

\* C3: generation raises the capacity error exactly when
\* mines > (x_size*y_size - safe_n) * per_cell; otherwise it succeeds, places
\* exactly `mines` mines and never raises the per-cell overflow.
C3_CapacityError ==
    /\ (pc = "start" /\ args.ctor = "count" /\ args.mines <= StatedCapacity) =>
          \E mine_coords \in _choose_mine_coords(args.x_size, args.y_size, args.mines,
                                  args.per_cell, args.safe_given, args.safe_coords) : TRUE
    /\ (pc # "start" /\ args.ctor = "count") =>
          /\ (pc = "raised") <=> (args.mines > StatedCapacity)
          /\ (pc = "raised") => exc = "ValueError: number of mines too high"
          /\ (pc = "done") =>
                /\ Len(mf.mine_coords) = args.mines
                /\ SumOver(mf.grid, MfCoords) = args.mines

\* A call with exactly as many mines as fit, which succeeds.
C3_Witness ==
    /\ pc = "done"
    /\ args.ctor = "count"
    /\ args.mines = StatedCapacity
    /\ args.mines > 0
    /\ args.safe_given
    /\ args.safe_coords # {}

\* C4: from_grid raises the overflow error if and only if some cell of the
\* layout exceeds per_cell; when it succeeds every cell stores the layout's
\* count.
C4_LayoutOverflow ==
    (pc # "start" /\ args.ctor = "grid") =>
        /\ (pc = "raised") <=> (\E c \in DOMAIN args.grid : args.grid[c] > args.per_cell)
        /\ (pc = "raised") => exc = "ValueError: too many mines at coord"
        /\ (pc = "done") => mf.grid = args.grid

\* A layout with a cell holding exactly per_cell = 2 mines, accepted.
C4_Witness ==
    /\ pc = "done"
    /\ args.ctor = "grid"
    /\ args.per_cell = 2
    /\ \E c \in DOMAIN args.grid : args.grid[c] = 2

\* C5 as stated: in the completed board each cell holding k >= 1 mines is
\* Mine(k) and each mine-free cell is Num(sum of its neighbours' mine counts).
C5_Original ==
    (pc = "done") =>
        \A c \in MfCoords :
            mf.completed_board[c] =
                IF mf.grid[c] >= 1 THEN CellMine(mf.grid[c]) ELSE CellNum(NbrMineSum(c))

\* C5, amended: in the completed board each cell holding k >= 1 mines is
\* Flag(k) and each mine-free cell is Num(sum of its neighbours' mine counts).
C5_CompletedBoard ==
    (pc = "done") =>
        \A c \in MfCoords :
            mf.completed_board[c] =
                IF mf.grid[c] >= 1 THEN CellFlag(mf.grid[c]) ELSE CellNum(NbrMineSum(c))

\* A mine-free cell next to a cell with two mines and to another mine.
C5_Witness ==
    /\ pc = "done"
    /\ \E c \in MfCoords :
          /\ mf.grid[c] = 0
          /\ mf.completed_board[c] = CellNum(3)
          /\ \E d \in MfCoords : Adjacent(c, d) /\ mf.grid[d] = 2

C7_Bbbv ==
    (pc = "done") =>
        /\ mf.bbbv = Len(mf.openings)
                       + (mf.x_size * mf.y_size - Cardinality(MineCells)
                            - Cardinality(UNION Range(mf.openings)))
        /\ mf.bbbv = Cardinality(ZeroRegions)
                       + Cardinality((MfCoords \ MineCells) \ CascadeCells)

\* A minefield with a stacked mine, an opening and a cell to click alone.
C7_Witness ==
    /\ pc = "done"
    /\ \E c \in MfCoords : mf.grid[c] = 2
    /\ Len(mf.openings) >= 1
    /\ (MfCoords \ MineCells) \ CascadeCells # {}

\* C8: a minefield with no mine has bbbv 1, and so has a minefield in which
\* every cell but exactly one holds a mine.
C8_BbbvExtremes ==
    (pc = "done") =>
        /\ mf.nr_mines = 0 => mf.bbbv = 1
        /\ Cardinality(MfCoords \ MineCells) = 1 => mf.bbbv = 1

\* A 3x3 minefield with two mines in every cell but the middle one.
C8_Witness ==
    /\ pc = "done"
    /\ mf.x_size = 3
    /\ mf.y_size = 3
    /\ MfCoords \ MineCells = {<<1, 1>>}
    /\ mf.grid[<<0, 0>>] = 2

\* C9: for the 4x4 layout with mines at (0,0) and (3,3) and per_cell = 1,
\* bbbv is 1 and the only opening covers the 14 mine-free cells.
C9_CornerMines ==
    (pc = "done" /\ args.grid = CornerLayout /\ args.per_cell = 1) =>
        /\ mf.bbbv = 1
        /\ Len(mf.openings) = 1
        /\ mf.openings[1] = CoordSet(4, 4) \ {<<0, 0>>, <<3, 3>>}
        /\ Cardinality(mf.openings[1]) = 14

\* The minefield of the 4x4 corner layout, constructed.
C9_Witness ==
    /\ pc = "done"
    /\ args.grid = CornerLayout
    /\ args.per_cell = 1
    /\ mf.nr_mines = 2

(***************************************************************************)
(* Playing a game                                                          *)
(***************************************************************************)
\* The arguments of Game(x_size=..., y_size=..., mines=..., per_cell=...,
\* lives=..., first_success=...).
GameArgs ==
    {[ctor |-> "game", x_size |-> size[1], y_size |-> size[2], mines |-> mines,
      per_cell |-> p, lives |-> lives, first_success |-> fs] :
        size \in GameGrids, mines \in 0..GameMaxMines, p \in 1..MaxPerCell,
        lives \in 1..MaxLives, fs \in BOOLEAN}

\* Before the game is constructed.
GameInit ==
    /\ args \in GameArgs
    /\ pc = "start"
    /\ exc = "none"
    /\ mf = NoMinefield
    /\ popRule = "first"
    /\ game = NoGame
    /\ ncalls = 0
    /\ call = NoCall
    /\ ctrl = NoCtrl
    /\ caller = NoCaller
    /\ gridObj = NoGrid
    /\ search = NoSearch
    /\ widget = NoWidget

\* Game.__init__: the minefield is generated and the game is Ready.  (A mine
\* count that does not fit the grid raises, and no game exists.)
NewGame ==
    /\ pc = "start"
    /\ args.ctor = "game"
    /\ \E m \in Minefields(args.x_size, args.y_size, args.mines, args.per_cell, FALSE, {}) :
          game' = Game(m, args.lives, args.first_success)
    /\ pc' = "game"
    /\ UNCHANGED <<args, exc, mf, popRule, ncalls, call, ctrl, caller, gridObj, search, widget>>

\* The coordinates of the game's board.
GameCoords == CoordSet(game.x_size, game.y_size)

\* A call of Game.select_cell.
SelectCell ==
    /\ pc = "game"
    /\ ncalls < MaxCalls
    /\ \E coord \in GameCoords :
          \E r \in select_cell(game, coord) :
             /\ game' = stamp(game, r.game, ncalls + 1)
             /\ call' = [op |-> "select_cell", coord |-> coord, nr_flags |-> 0,
                         before |-> game, cells |-> r.cells]
    /\ ncalls' = ncalls + 1
    /\ UNCHANGED <<args, pc, exc, mf, popRule, ctrl, caller, gridObj, search, widget>>

\* A call of Game.chord_on_cell.
ChordOnCell ==
    /\ pc = "game"
    /\ ncalls < MaxCalls
    /\ \E coord \in GameCoords :
          LET r == chord_on_cell(game, coord)
          IN  /\ game' = stamp(game, r.game, ncalls + 1)
              /\ call' = [op |-> "chord_on_cell", coord |-> coord, nr_flags |-> 0,
                          before |-> game, cells |-> r.cells]
    /\ ncalls' = ncalls + 1
    /\ UNCHANGED <<args, pc, exc, mf, popRule, ctrl, caller, gridObj, search, widget>>

\* A call of Game.set_cell_flags.
SetCellFlags ==
    /\ pc = "game"
    /\ ncalls < MaxCalls
    /\ \E coord \in GameCoords, nr_flags \in 0..game.per_cell :
          LET r == set_cell_flags(game, coord, nr_flags)
          IN  /\ game' = stamp(game, r.game, ncalls + 1)
              /\ call' = [op |-> "set_cell_flags", coord |-> coord, nr_flags |-> nr_flags,
                          before |-> game, cells |-> r.cells]
    /\ ncalls' = ncalls + 1
    /\ UNCHANGED <<args, pc, exc, mf, popRule, ctrl, caller, gridObj, search, widget>>

GameNext == NewGame \/ SelectCell \/ ChordOnCell \/ SetCellFlags
SpecGame == GameInit /\ [][GameNext]_vars

(***************************************************************************)
(* Properties of the game                                                  *)
(***************************************************************************)
\* The cells of a board that have been revealed.
RevealedCells(board) == {c \in DOMAIN board : board[c].t \notin {"Unclicked", "Flag"}}

\* C10: over any sequence of select_cell, chord_on_cell and set_cell_flags
\* calls the state of a game only moves along Ready -> Active -> Won or Lost:
\* it is Ready exactly until the first reveal, a Won or Lost game stays as it
\* is, and an Active game never becomes Ready again.
C10_StateOrder ==
    [][(pc = "game") =>
          /\ game.state = "READY" => game'.state \in {"READY", "ACTIVE", "WON", "LOST"}
          /\ game.state = "ACTIVE" => game'.state \in {"ACTIVE", "WON", "LOST"}
          /\ game.state = "WON" => game'.state = "WON"
          /\ game.state = "LOST" => game'.state = "LOST"
          /\ (game.state = "READY") <=> (RevealedCells(game.board) = {})
          /\ (game'.state = "READY") <=> (RevealedCells(game'.board) = {})]_vars

\* A game lost by its third call, after a number had been revealed.
C10_Witness ==
    /\ pc = "game"
    /\ game.state = "LOST"
    /\ ncalls = 3
    /\ \E c \in DOMAIN game.board : game.board[c].t = "Num"
    /\ \E c \in DOMAIN game.board : game.board[c].t = "WrongFlag"

\* C11: once a game is Won or Lost, select_cell, chord_on_cell and
\* set_cell_flags return an empty update and leave the board, the counters,
\* the state and the elapsed time as they were.
C11_FinishedFrame ==
    (pc = "game" /\ call.op # "none" /\ call.before.state \in {"WON", "LOST"}) =>
        /\ call.cells = NoCells
        /\ game.board = call.before.board
        /\ game.mines_remaining = call.before.mines_remaining
        /\ game.lives_remaining = call.before.lives_remaining
        /\ game.state = call.before.state
        /\ get_elapsed(game, ncalls) = get_elapsed(call.before, ncalls - 1)

\* select_cell called on an Unclicked cell of a game that was already lost.
C11_Witness ==
    /\ pc = "game"
    /\ call.op = "select_cell"
    /\ call.before.state = "LOST"
    /\ call.before.board[call.coord] = CellUnclicked

\* The sum of the flag counts of the cells next to c on a board.
NbrFlagSum(board, c) ==
    SumOver([d \in DOMAIN board |-> IF board[d].t = "Flag" THEN board[d].n ELSE 0],
            {d \in DOMAIN board : Adjacent(c, d)})

\* The last call was made on a Ready or Active game.
CallOnLiveGame ==
    /\ pc = "game"
    /\ call.op # "none"
    /\ call.before.state \in {"READY", "ACTIVE"}

\* C12: in a Ready or Active game, select_cell on a flagged or revealed cell,
\* chord_on_cell on a number whose neighbouring flags do not add up to it, and
\* set_cell_flags on a revealed cell return an empty update and change no
\* cell, no counter and not the state.
C12_BenignNoOps ==
    (/\ CallOnLiveGame
     /\ \/ call.op = "select_cell" /\ call.before.board[call.coord] # CellUnclicked
        \/ /\ call.op = "chord_on_cell"
           /\ call.before.board[call.coord].t = "Num"
           /\ NbrFlagSum(call.before.board, call.coord) # call.before.board[call.coord].n
        \/ /\ call.op = "set_cell_flags"
           /\ call.before.board[call.coord].t \notin {"Unclicked", "Flag"})
    => /\ call.cells = NoCells
       /\ game = call.before

\* chord_on_cell on a number with an Unclicked neighbour and no flag next to it.
C12_Witness ==
    /\ CallOnLiveGame
    /\ call.op = "chord_on_cell"
    /\ call.before.board[call.coord].t = "Num"
    /\ call.before.board[call.coord].n = 1
    /\ NbrFlagSum(call.before.board, call.coord) = 0
    /\ \E d \in DOMAIN game.board :
          Adjacent(call.coord, d) /\ call.before.board[d] = CellUnclicked

\* The last call was the first select_cell of a Ready game with first_success,
\* on an Unclicked cell that held a mine.
FirstClickOnMine ==
    /\ pc = "game"
    /\ call.op = "select_cell"
    /\ call.before.state = "READY"
    /\ call.before.first_success
    /\ call.before.board[call.coord] = CellUnclicked
    /\ call.before.mf.grid[call.coord] > 0

\* C13: when the first select_cell of a Ready game with first_success hits a
\* coordinate that holds a mine, the minefield is regenerated with no mine
\* there and the same number of mines, the click reveals a number and the
\* game is not lost by it.
C13_FirstSuccess ==
    FirstClickOnMine =>
        /\ game.mf.grid[call.coord] = 0
        /\ game.mf.nr_mines = call.before.mf.nr_mines
        /\ SumOver(game.mf.grid, DOMAIN game.mf.grid) = call.before.mf.nr_mines
        /\ DOMAIN game.mf.grid = DOMAIN call.before.mf.grid
        /\ game.mf.per_cell = call.before.mf.per_cell
        /\ game.board[call.coord].t = "Num"
        /\ call.cells[call.coord].t = "Num"
        /\ game.state # "LOST"

\* A first click on a cell that held two mines, after which the two mines
\* lie elsewhere.
C13_Witness ==
    /\ FirstClickOnMine
    /\ call.before.mf.grid[call.coord] = 2
    /\ game.mf.nr_mines = 2
    /\ game.state = "ACTIVE"

\* The last call was select_cell on an Unclicked cell holding a mine, in a
\* game with one life, outside the first-success case.
MineHitLastLife ==
    /\ CallOnLiveGame
    /\ call.op = "select_cell"
    /\ call.before.lives = 1
    /\ call.before.board[call.coord] = CellUnclicked
    /\ call.before.mf.grid[call.coord] > 0
    /\ ~(call.before.state = "READY" /\ call.before.first_success)

\* C14: with one life, select_cell on an unflagged cell holding a mine shows
\* HitMine there, Mine in every other unflagged mine cell, WrongFlag in every
\* flagged cell whose flag count is not its mine count, and the game is Lost;
\* no other cell changes.
C14_LoseGame ==
    MineHitLastLife =>
        /\ game.state = "LOST"
        /\ game.mf = call.before.mf
        /\ \A c \in DOMAIN game.board :
              game.board[c] =
                 IF c = call.coord THEN CellHitMine(game.mf.grid[c])
                 ELSE IF call.before.board[c] = CellUnclicked /\ game.mf.grid[c] > 0
                      THEN CellMine(game.mf.grid[c])
                 ELSE IF /\ call.before.board[c].t = "Flag"
                         /\ call.before.board[c].n # game.mf.grid[c]
                      THEN CellWrongFlag(call.before.board[c].n)
                 ELSE call.before.board[c]
        /\ DOMAIN call.cells = {c \in DOMAIN game.board : game.board[c] # call.before.board[c]}
        /\ \A c \in DOMAIN call.cells : call.cells[c] = game.board[c]

\* A game lost with a flag on a mine-free cell and a mine cell that was not
\* the one hit.
C14_Witness ==
    /\ MineHitLastLife
    /\ \E c \in DOMAIN game.board :
          game.board[c].t = "WrongFlag" /\ game.mf.grid[c] = 0
    /\ \E c \in DOMAIN game.board : game.board[c].t \in {"Mine", "Flag"} /\ game.mf.grid[c] > 0

\* The cells of the minefield m whose completed board shows Num(0).
ZeroCellsOf(m) == {c \in DOMAIN m.grid : m.completed_board[c] = CellNum(0)}

RECURSIVE RegionOf(_, _)
\* The zero cells of m connected to those of S through adjacent zero cells.
RegionOf(m, S) ==
    LET T == S \cup {d \in ZeroCellsOf(m) : \E c \in S : Adjacent(c, d)}
    IN  IF T = S THEN S ELSE RegionOf(m, T)

\* The zero cells connected to the zero cell coord, and all their neighbours.
CascadeOf(m, coord) ==
    LET region == RegionOf(m, {coord})
    IN  region \cup {d \in DOMAIN m.grid : \E c \in region : Adjacent(c, d)}

\* The last call was select_cell on an Unclicked cell holding no mine.
SafeCellSelected ==
    /\ CallOnLiveGame
    /\ call.op = "select_cell"
    /\ call.before.board[call.coord] = CellUnclicked
    /\ call.before.mf.grid[call.coord] = 0

C16_Won ==
    (pc = "game") =>
        /\ (game.state = "WON") <=>
              /\ \A c \in DOMAIN game.board :
                    game.mf.grid[c] = 0 => game.board[c].t = "Num"
              /\ game.state # "LOST"
        /\ game.state = "WON" =>
              /\ game.board = game.mf.completed_board
              /\ game.mines_remaining = 0
        /\ (game.state = "WON" /\ call.before.state # "WON") =>
              \A c \in DOMAIN game.board :
                 (game.mf.grid[c] > 0 /\ call.before.board[c] # CellFlag(game.mf.grid[c]))
                    => call.cells[c] = CellFlag(game.mf.grid[c])

\* A game won by a call that left a cell with two mines, Unclicked until
\* then, showing Flag(2).
C16_Witness ==
    /\ pc = "game"
    /\ game.state = "WON"
    /\ call.before.state = "ACTIVE"
    /\ \E c \in DOMAIN game.board :
          call.before.board[c] = CellUnclicked /\ game.board[c] = CellFlag(2)

\* The last call was chord_on_cell on a Ready or Active game.
ChordCalled == CallOnLiveGame /\ call.op = "chord_on_cell"

\* The chorded cell shows a number above 0 that the flags next to it add up to.
ChordApplies ==
    /\ call.before.board[call.coord].t = "Num"
    /\ call.before.board[call.coord].n > 0
    /\ NbrFlagSum(call.before.board, call.coord) = call.before.board[call.coord].n

\* The Unclicked neighbours of the chorded cell.
ChordTargets ==
    {c \in DOMAIN call.before.board :
        Adjacent(call.coord, c) /\ call.before.board[c] = CellUnclicked}

\* The cells a chord that meets no mine reveals: its targets and, for each
\* target that is a zero, the cells of its cascade that are not flagged.
ChordReveals ==
    ChordTargets \cup
      {d \in DOMAIN call.before.board :
          /\ call.before.board[d] = CellUnclicked
          /\ \E c \in ChordTargets :
                /\ game.mf.completed_board[c] = CellNum(0)
                /\ d \in CascadeOf(game.mf, c)}

\* C17: chord_on_cell on a revealed number n > 0 whose neighbouring flags add
\* up to n reveals the Unclicked neighbours as select_cell does (numbers with
\* their cascades and the win check; a mine is hit and, with no life to
\* spare, the game lost), in one update; on any other cell it changes nothing.
C17_Chord ==
    ChordCalled =>
        LET m == game.mf
            mined == {c \in ChordTargets : m.grid[c] > 0}
        IN  /\ m = call.before.mf
            /\ DOMAIN call.cells = {c \in DOMAIN game.board : game.board[c] # call.before.board[c]}
            /\ \A c \in DOMAIN call.cells : call.cells[c] = game.board[c]
            /\ ~ChordApplies => game = call.before
            /\ (ChordApplies /\ mined = {}) =>
                  /\ \A c \in ChordReveals : game.board[c] = m.completed_board[c]
                  /\ \A c \in DOMAIN game.board \ ChordReveals :
                        \/ game.board[c] = call.before.board[c]
                        \/ game.state = "WON" /\ game.board[c] = CellFlag(m.grid[c])
                  /\ game.state \in {"ACTIVE", "WON"}
                  /\ (game.state = "WON") <=>
                        \A c \in DOMAIN game.board : m.grid[c] = 0 => game.board[c].t = "Num"
            /\ (ChordApplies /\ mined # {}) =>
                  /\ game.state # "WON" =>
                        \E c \in mined : game.board[c] = CellHitMine(m.grid[c])
                  /\ call.before.lives_remaining = 1 =>
                        /\ game.state = "LOST"
                        /\ \A c \in mined : game.board[c].t \in {"HitMine", "Mine"}
                  /\ call.before.lives_remaining > 1 =>
                        game.lives_remaining < call.before.lives_remaining
                  /\ game.state # "LOST" =>
                        \A c \in ChordTargets :
                            m.grid[c] = 0 => game.board[c] = m.completed_board[c]
            /\ \A c \in DOMAIN game.board :
                  call.before.board[c].t = "Flag" =>
                     game.board[c].t \in {"Flag", "WrongFlag"}

\* A chord on a Num(2) next to a Flag(2) that reveals two neighbours.
C17_Witness ==
    /\ ChordCalled
    /\ ChordApplies
    /\ call.before.board[call.coord].n = 2
    /\ Cardinality(ChordTargets) = 2
    /\ \A c \in ChordTargets : game.board[c].t = "Num"

\* The sum of the counts of the cells of a board that show one of the types.
ShownSum(board, types) ==
    SumOver([c \in DOMAIN board |-> IF board[c].t \in types THEN board[c].n ELSE 0],
            DOMAIN board)

CtrlBoards == {<<3, 1, 1>>, <<2, 1, 1>>, <<2, 1, 2>>}
MaxCtrlCalls == 4
CtrlMaxLives == 1

\* SharedInfo(): the update with its default values.
SharedInfo ==
    [cell_updates |-> NoCells, game_state |-> "READY", mines_remaining |-> 0,
     lives_remaining |-> 0, finish_time |-> NoTime]

\* One call of a method of the listeners.
Notif(name, arg) == [name |-> name, arg |-> arg]

\* What the listeners hold once they are told of a reset to the game g.
SeenAfterReset(g) ==
    [board |-> Grid(g.x_size, g.y_size, CellUnclicked),
     mines_remaining |-> g.mines_remaining, game_state |-> "READY",
     finish_time |-> NoTime]

\* The cells of a board overwritten by those of an update.
ApplyCells(board, cells) ==
    [c \in DOMAIN board |-> IF c \in DOMAIN cells THEN cells[c] ELSE board[c]]

\* Controller._send_reset_update.
_send_reset_update(c, g) ==
    [c EXCEPT !.notifs = Append(@, Notif("reset", <<>>)),
              !.last_update = SharedInfo,
              !.seen = SeenAfterReset(g)]

\* Controller._send_resize_update.
_send_resize_update(c) ==
    [c EXCEPT !.notifs =
        Append(@, Notif("resize", <<c.opts.x_size, c.opts.y_size, c.opts.mines>>))]

\* Controller._send_updates: whether update_cells is called.
cells_to_send(cell_updates) == cell_updates # NoCells

\* Controller._send_updates, mutated: the finish time is not compared with
\* the one of the last update.
finish_time_to_send_always(update, last) == update.finish_time # NoTime

\* Controller._send_updates: whether set_finish_time is called.
finish_time_to_send(update, last) ==
    /\ update.finish_time # NoTime
    /\ update.finish_time # last.finish_time

\* _send_updates with the game state sent before the cells.
_send_updates_state_first(c, g, cells_updated, now) ==
    LET update == [cell_updates |-> cells_updated,
                   mines_remaining |-> g.mines_remaining,
                   lives_remaining |-> g.lives_remaining,
                   game_state |-> g.state,
                   finish_time |-> IF finished(g.state) THEN get_elapsed(g, now)
                                   ELSE NoTime]
        cells == IF cells_to_send(update.cell_updates)
                 THEN <<Notif("update_cells", update.cell_updates)>> ELSE <<>>
        mines == IF update.mines_remaining # c.last_update.mines_remaining
                 THEN <<Notif("update_mines_remaining", update.mines_remaining)>>
                 ELSE <<>>
        state == IF update.game_state # c.last_update.game_state
                 THEN <<Notif("update_game_state", update.game_state)>> ELSE <<>>
        time == IF finish_time_to_send(update, c.last_update)
                THEN <<Notif("set_finish_time", update.finish_time)>> ELSE <<>>
    IN  [c EXCEPT
           !.notifs = @ \o state \o cells \o mines \o time,
           !.last_update = update,
           !.seen = [board |-> IF cells # <<>>
                               THEN ApplyCells(@.board, update.cell_updates)
                               ELSE @.board,
                     mines_remaining |-> IF mines # <<>> THEN update.mines_remaining
                                         ELSE @.mines_remaining,
                     game_state |-> IF state # <<>> THEN update.game_state
                                    ELSE @.game_state,
                     finish_time |-> IF time # <<>> THEN update.finish_time
                                     ELSE @.finish_time]]

\* Controller._send_updates: the update of the game g after a call that
\* returned cells_updated, sent field by field where it differs from the
\* last update.
_send_updates(c, g, cells_updated, now) ==
    LET update == [cell_updates |-> cells_updated,
                   mines_remaining |-> g.mines_remaining,
                   lives_remaining |-> g.lives_remaining,
                   game_state |-> g.state,
                   finish_time |-> IF finished(g.state) THEN get_elapsed(g, now)
                                   ELSE NoTime]
        cells == IF cells_to_send(update.cell_updates)
                 THEN <<Notif("update_cells", update.cell_updates)>> ELSE <<>>
        mines == IF update.mines_remaining # c.last_update.mines_remaining
                 THEN <<Notif("update_mines_remaining", update.mines_remaining)>>
                 ELSE <<>>
        state == IF update.game_state # c.last_update.game_state
                 THEN <<Notif("update_game_state", update.game_state)>> ELSE <<>>
        time == IF finish_time_to_send(update, c.last_update)
                THEN <<Notif("set_finish_time", update.finish_time)>> ELSE <<>>
    IN  [c EXCEPT
           !.notifs = @ \o cells \o mines \o state \o time,
           !.last_update = update,
           !.seen = [board |-> IF cells # <<>>
                               THEN ApplyCells(@.board, update.cell_updates)
                               ELSE @.board,
                     mines_remaining |-> IF mines # <<>> THEN update.mines_remaining
                                         ELSE @.mines_remaining,
                     game_state |-> IF state # <<>> THEN update.game_state
                                    ELSE @.game_state,
                     finish_time |-> IF time # <<>> THEN update.finish_time
                                     ELSE @.finish_time]]

\* The outcome of a method of the controller: the controller and its game
\* after it, and whether it raised.
Outcome(c, g, raised) == [ctrl |-> c, game |-> g, raised |-> raised]

\* Controller.new_game: the outcomes it can have.  game.Game(...) raises
\* when the mines do not fit the grid, before anything is assigned.
new_game(c, g) ==
    LET ms == Minefields(c.opts.x_size, c.opts.y_size, c.opts.mines, c.opts.per_cell,
                         FALSE, {})
    IN  IF ms = {} THEN {Outcome(c, g, TRUE)}
        ELSE {LET new == Game(m, c.opts.lives, c.opts.first_success)
              IN  Outcome([_send_reset_update(c, new) EXCEPT !.made_by = "new_game"],
                          new, FALSE) : m \in ms}

\* Controller.restart_game, mutated: the minefield is generated again.
restart_game_new_minefield(c, g) ==
    IF g.mf = NoMinefield THEN {Outcome(c, g, FALSE)}
    ELSE {LET new == Game(m, c.opts.lives, FALSE)
          IN  Outcome([_send_reset_update(c, new) EXCEPT !.made_by = "restart_game"],
                      new, FALSE) :
             m \in Minefields(g.x_size, g.y_size, g.mines, g.per_cell, FALSE, {})}

\* Controller.restart_game: a new game on the minefield of the current one.
restart_game(c, g) ==
    IF g.mf = NoMinefield THEN {Outcome(c, g, FALSE)}
    ELSE LET new == Game(g.mf, c.opts.lives, FALSE)
         IN  {Outcome([_send_reset_update(c, new) EXCEPT !.made_by = "restart_game"],
                      new, FALSE)}

\* Controller.select_cell: the outcomes it can have.
ctrl_select_cell(c, g, coord, now) ==
    {LET g1 == stamp(g, r.game, now)
     IN  Outcome(_send_updates(c, g1, r.cells, now), g1, FALSE) :
        r \in select_cell(g, coord)}

\* Controller.flag_cell: the flag count at which flagging wraps around.
flag_limit(c, g) == c.opts.per_cell

\* Controller.flag_cell.
flag_cell(c, g, coord, flag_only, now) ==
    LET cell_state == g.board[coord]
        sent(g1) == Outcome(_send_updates(c, g1, [d \in {coord} |-> g1.board[coord]], now),
                            g1, FALSE)
    IN  IF cell_state = CellUnclicked
        THEN sent(set_cell_flags(g, coord, 1).game)
        ELSE IF cell_state.t = "Flag"
        THEN IF cell_state.n = flag_limit(c, g)
             THEN IF flag_only THEN Outcome(c, g, FALSE)
                  ELSE sent(set_cell_flags(g, coord, 0).game)
             ELSE sent(set_cell_flags(g, coord, cell_state.n + 1).game)
        ELSE sent(g)

\* Controller.remove_cell_flags.
remove_cell_flags(c, g, coord, now) ==
    LET g1 == set_cell_flags(g, coord, 0).game
    IN  Outcome(_send_updates(c, g1, [d \in {coord} |-> g1.board[coord]], now), g1, FALSE)

\* Controller.chord_on_cell.
ctrl_chord_on_cell(c, g, coord, now) ==
    LET r == chord_on_cell(g, coord)
        g1 == stamp(g, r.game, now)
    IN  Outcome(_send_updates(c, g1, r.cells, now), g1, FALSE)

\* Controller.resize_board, mutated: the resize is sent after the new game.
resize_board_reset_first(c, g, x_size, y_size, mines) ==
    IF x_size = c.opts.x_size /\ y_size = c.opts.y_size /\ mines = c.opts.mines
    THEN new_game(c, g)
    ELSE {Outcome(_send_resize_update(o.ctrl), o.game, o.raised) :
             o \in new_game([c EXCEPT !.opts.x_size = x_size, !.opts.y_size = y_size,
                                      !.opts.mines = mines], g)}

\* Controller.resize_board: the outcomes it can have.
resize_board(c, g, x_size, y_size, mines) ==
    IF x_size = c.opts.x_size /\ y_size = c.opts.y_size /\ mines = c.opts.mines
    THEN new_game(c, g)
    ELSE new_game(_send_resize_update(
                     [c EXCEPT !.opts.x_size = x_size, !.opts.y_size = y_size,
                               !.opts.mines = mines]), g)

\* Controller.set_first_success.
set_first_success(c, g, value) ==
    Outcome([c EXCEPT !.opts.first_success = value], g, FALSE)

\* Controller.set_per_cell: the outcomes it can have.
set_per_cell(c, g, value) ==
    IF c.opts.per_cell # value
    THEN LET c1 == [c EXCEPT !.opts.per_cell = value]
         IN  IF g.state = "READY" THEN new_game(c1, g) ELSE {Outcome(c1, g, FALSE)}
    ELSE {Outcome(c, g, FALSE)}

\* The options a Controller is constructed with.
CtrlArgs ==
    {[ctor |-> "ctrl", x_size |-> b[1], y_size |-> b[2], mines |-> b[3],
      per_cell |-> p, lives |-> lives, first_success |-> fs] :
        b \in CtrlBoards, p \in 1..MaxPerCell, lives \in 1..CtrlMaxLives,
        fs \in BOOLEAN}

\* Before the controller is constructed.
CtrlInit ==
    /\ args \in CtrlArgs
    /\ pc = "start"
    /\ exc = "none"
    /\ mf = NoMinefield
    /\ popRule = "first"
    /\ game = NoGame
    /\ ncalls = 0
    /\ call = NoCall
    /\ ctrl = NoCtrl
    /\ caller = NoCaller
    /\ gridObj = NoGrid
    /\ search = NoSearch
    /\ widget = NoWidget

\* The controller before __init__ calls new_game: the options copied from the
\* arguments a, nothing sent yet.  (made_by records the method that made the
\* current game.)
Controller(a) ==
    [opts |-> [x_size |-> a.x_size, y_size |-> a.y_size, mines |-> a.mines,
               per_cell |-> a.per_cell, lives |-> a.lives,
               first_success |-> a.first_success],
     last_update |-> SharedInfo, notifs |-> <<>>, made_by |-> "none",
     seen |-> SeenAfterReset([x_size |-> a.x_size, y_size |-> a.y_size,
                              mines_remaining |-> a.mines])]

\* Controller.__init__: the options are copied (GameOptsStruct._from_struct),
\* the arguments are not used again, and new_game is called.  (A mine count
\* that does not fit the grid raises, and no controller exists.)
CtrlNew ==
    /\ pc = "start"
    /\ args.ctor = "ctrl"
    /\ \E o \in new_game(Controller(args), game) :
              IF o.raised
              THEN /\ exc' = "ValueError: number of mines too high"
                   /\ pc' = "done"
                   /\ UNCHANGED <<game, ctrl>>
              ELSE /\ exc' = "none"
                   /\ pc' = "ctrl"
                   /\ game' = o.game
                   /\ ctrl' = o.ctrl
    /\ args' = [ctor |-> args.ctor]
    /\ UNCHANGED <<mf, popRule, ncalls, call, caller, gridObj, search, widget>>

\* The controller as a call on it starts: the notifications of the call are
\* recorded from the empty sequence.
Called == [ctrl EXCEPT !.notifs = <<>>]

\* The record of a call on the controller: the method, its argument, and the
\* game, the options and the listeners' view before it.
CtrlCall(op, arg) ==
    [op |-> op, arg |-> arg, before |-> game, opts |-> ctrl.opts,
     last_update |-> ctrl.last_update, seen |-> ctrl.seen, made_by |-> ctrl.made_by]

\* A call of a method of the controller with one of the outcomes outs.
CtrlDo(op, arg, outs) ==
    /\ \E o \in outs :
          /\ ctrl' = o.ctrl
          /\ game' = o.game
          /\ exc' = IF o.raised THEN "ValueError: number of mines too high" ELSE "none"
    /\ call' = CtrlCall(op, arg)
    /\ ncalls' = ncalls + 1
    /\ UNCHANGED <<args, pc, mf, popRule, caller, gridObj, search, widget>>

\* A call of Controller.new_game.
CtrlNewGame ==
    /\ pc = "ctrl" /\ ncalls < MaxCtrlCalls
    /\ CtrlDo("new_game", <<>>, new_game(Called, game))

\* A call of Controller.restart_game.
CtrlRestartGame ==
    /\ pc = "ctrl" /\ ncalls < MaxCtrlCalls
    /\ CtrlDo("restart_game", <<>>, restart_game(Called, game))

\* A call of Controller.select_cell.
CtrlSelectCell ==
    /\ pc = "ctrl" /\ ncalls < MaxCtrlCalls
    /\ \E coord \in GameCoords :
          CtrlDo("select_cell", coord, ctrl_select_cell(Called, game, coord, ncalls + 1))

\* A call of Controller.flag_cell.
CtrlFlagCell ==
    /\ pc = "ctrl" /\ ncalls < MaxCtrlCalls
    /\ \E coord \in GameCoords, flag_only \in BOOLEAN :
          CtrlDo("flag_cell", <<coord, flag_only>>,
                 {flag_cell(Called, game, coord, flag_only, ncalls + 1)})

\* A call of Controller.remove_cell_flags.
CtrlRemoveCellFlags ==
    /\ pc = "ctrl" /\ ncalls < MaxCtrlCalls
    /\ \E coord \in GameCoords :
          CtrlDo("remove_cell_flags", coord,
                 {remove_cell_flags(Called, game, coord, ncalls + 1)})

\* A call of Controller.chord_on_cell.
CtrlChordOnCell ==
    /\ pc = "ctrl" /\ ncalls < MaxCtrlCalls
    /\ \E coord \in GameCoords :
          CtrlDo("chord_on_cell", coord,
                 {ctrl_chord_on_cell(Called, game, coord, ncalls + 1)})

\* A call of Controller.resize_board.
CtrlResizeBoard ==
    /\ pc = "ctrl" /\ ncalls < MaxCtrlCalls
    /\ \E b \in CtrlBoards :
          CtrlDo("resize_board", b, resize_board(Called, game, b[1], b[2], b[3]))

\* A call of Controller.set_first_success.
CtrlSetFirstSuccess ==
    /\ pc = "ctrl" /\ ncalls < MaxCtrlCalls
    /\ \E value \in BOOLEAN :
          CtrlDo("set_first_success", value, {set_first_success(Called, game, value)})

\* A call of Controller.set_per_cell.
CtrlSetPerCell ==
    /\ pc = "ctrl" /\ ncalls < MaxCtrlCalls
    /\ \E value \in 1..MaxPerCell :
          CtrlDo("set_per_cell", value, set_per_cell(Called, game, value))

CtrlNext ==
    \/ CtrlNew
    \/ CtrlNewGame
    \/ CtrlRestartGame
    \/ CtrlSelectCell
    \/ CtrlFlagCell
    \/ CtrlRemoveCellFlags
    \/ CtrlChordOnCell
    \/ CtrlResizeBoard
    \/ CtrlSetFirstSuccess
    \/ CtrlSetPerCell
SpecCtrl == CtrlInit /\ [][CtrlNext]_vars

(***************************************************************************)
(* Properties of the controller                                            *)
(***************************************************************************)
\* C19: after any sequence of calls on the controller, every Flag(n) on the
\* board has 1 <= n <= per_cell of the game being played, and every cell
\* holds one cell-contents value.
C19_FlagBounds ==
    pc = "ctrl" =>
        \A c \in GameCoords :
            /\ game.board[c].t \in {"Unclicked", "Num", "Flag", "WrongFlag", "Mine", "HitMine"}
            /\ game.board[c].t = "Flag" =>
                  /\ 1 <= game.board[c].n
                  /\ game.board[c].n <= game.per_cell

\* The methods of the controller that act on a cell.
CellMethods == {"select_cell", "flag_cell", "remove_cell_flags", "chord_on_cell"}

\* C20: a call of select_cell, flag_cell, remove_cell_flags or chord_on_cell
\* sends only what changed: no cell of update_cells has the value the
\* listeners already hold, and update_mines_remaining, update_game_state and
\* set_finish_time carry a value that differs from the one the listeners hold
\* since the previous notification or the reset.
C20_OnlyChanges ==
    (pc = "ctrl" /\ call.op \in CellMethods) =>
        \A i \in DOMAIN ctrl.notifs :
            LET n == ctrl.notifs[i]
            IN  /\ n.name = "update_cells" =>
                      \A c \in DOMAIN n.arg : n.arg[c] # call.seen.board[c]
                /\ n.name = "update_mines_remaining" => n.arg # call.seen.mines_remaining
                /\ n.name = "update_game_state" => n.arg # call.seen.game_state
                /\ n.name = "set_finish_time" => n.arg # call.seen.finish_time

\* Whether the last call sent the notification name with the argument arg.
Sent(name, arg) == \E i \in DOMAIN ctrl.notifs : ctrl.notifs[i] = Notif(name, arg)

\* C21: whenever a call of select_cell, flag_cell, remove_cell_flags or
\* chord_on_cell leaves the game's mines_remaining different from its value
\* before the call, update_mines_remaining is sent with the new value during
\* that call, also when the new value is 0 or negative and when the call is
\* the first one after new_game or restart_game.
C21_MinesRemainingSent ==
    (/\ pc = "ctrl"
     /\ call.op \in CellMethods
     /\ game.mines_remaining # call.before.mines_remaining)
        => Sent("update_mines_remaining", game.mines_remaining)

\* The number of set_finish_time notifications the last call sent.
NrFinishTimes == Cardinality({i \in DOMAIN ctrl.notifs : ctrl.notifs[i].name = "set_finish_time"})

\* C22: set_finish_time is sent once for a game that reaches Won or Lost, by
\* the call that ends the game (with the elapsed time of the game); the
\* further calls on the finished game send none, and no call that leaves the
\* game Ready or Active sends one.
C22_FinishTimeOnce ==
    pc = "ctrl" =>
        /\ (call.op \in CellMethods /\ ~finished(call.before.state) /\ finished(game.state))
              => /\ NrFinishTimes = 1
                 /\ Sent("set_finish_time", game.end_time - game.start_time)
        /\ (call.op \in CellMethods /\ finished(call.before.state)) => NrFinishTimes = 0
        /\ ~finished(game.state) => NrFinishTimes = 0

\* A further call made on a finished game, whose finish time was sent by an
\* earlier call.
C22_Witness ==
    /\ pc = "ctrl"
    /\ call.op \in CellMethods
    /\ finished(call.before.state)
    /\ finished(game.state)
    /\ ctrl.last_update.finish_time # NoTime
    /\ ncalls >= 2

\* A Ready game as the constructor leaves it, built from the options opts.
FreshGame(g, opts) ==
    /\ g.state = "READY"
    /\ g.board = Grid(opts.x_size, opts.y_size, CellUnclicked)
    /\ g.mines_remaining = opts.mines
    /\ g.mf.nr_mines = opts.mines
    /\ g.per_cell = opts.per_cell
    /\ g.lives_remaining = opts.lives
    /\ g.start_time = NoTime

\* C23: new_game, from any state of the controller, replaces the game with a
\* fresh one built from the current options (Ready, every cell Unclicked,
\* mines_remaining equal to the configured mines), resets the cache of the
\* last update, sends exactly one reset and leaves the options unchanged.
C23_NewGame ==
    (pc = "ctrl" /\ call.op = "new_game") =>
        /\ exc = "none"
        /\ FreshGame(game, ctrl.opts)
        /\ ctrl.last_update = SharedInfo
        /\ ctrl.notifs = <<Notif("reset", <<>>)>>
        /\ ctrl.opts = call.opts

(***************************************************************************)
(* Restarting, also when no minefield exists yet                           *)
(***************************************************************************)
\* A Ready game of the options opts for which no minefield exists yet.
GameWithoutMinefield(opts) ==
    [x_size |-> opts.x_size, y_size |-> opts.y_size, mines |-> opts.mines,
     per_cell |-> opts.per_cell, lives |-> opts.lives,
     first_success |-> opts.first_success,
     mf |-> NoMinefield, board |-> Grid(opts.x_size, opts.y_size, CellUnclicked),
     state |-> "READY", mines_remaining |-> opts.mines, lives_remaining |-> opts.lives,
     timer |-> "unset", start_time |-> NoTime, end_time |-> NoTime]

\* Controller.__init__ with a game that has not created its minefield.
RestartNew ==
    /\ pc = "start"
    /\ args.ctor = "ctrl"
    /\ LET new == GameWithoutMinefield(Controller(args).opts)
       IN  /\ game' = new
           /\ ctrl' = _send_reset_update(Controller(args), new)
    /\ pc' = "ctrl"
    /\ exc' = "none"
    /\ args' = [ctor |-> args.ctor]
    /\ UNCHANGED <<mf, popRule, ncalls, call, caller, gridObj, search, widget>>

\* A call of Controller.select_cell on a game that has its minefield.
RestartSelectCell == pc = "ctrl" /\ game.mf # NoMinefield /\ CtrlSelectCell

RestartNext ==
    \/ CtrlNew
    \/ RestartNew
    \/ RestartSelectCell
    \/ CtrlFlagCell
    \/ CtrlRestartGame
SpecRestart == CtrlInit /\ [][RestartNext]_vars

\* C24: restart_game on a game that has a minefield creates a Ready game with
\* an all-Unclicked board on the same minefield (the same mine layout) and
\* sends one reset; when no minefield exists yet it changes nothing and
\* sends nothing.
C24_Restart ==
    (pc = "ctrl" /\ call.op = "restart_game") =>
        IF call.before.mf # NoMinefield
        THEN /\ game.state = "READY"
             /\ game.board = Grid(game.x_size, game.y_size, CellUnclicked)
             /\ game.mf = call.before.mf
             /\ game.mf.grid = call.before.mf.grid
             /\ ctrl.notifs = <<Notif("reset", <<>>)>>
        ELSE /\ game = call.before
             /\ ctrl.notifs = <<>>
             /\ ctrl.opts = call.opts
             /\ ctrl.last_update = call.last_update
             /\ ctrl.seen = call.seen

\* A restart of a game that was started on a minefield with mines.
C24_Witness ==
    /\ pc = "ctrl"
    /\ call.op = "restart_game"
    /\ call.before.mf # NoMinefield
    /\ call.before.state # "READY"
    /\ call.before.mf.nr_mines > 0

\* The board <<x_size, y_size, mines>> of the options opts.
BoardOf(opts) == <<opts.x_size, opts.y_size, opts.mines>>

\* C25: resize_board with the parameters of the current options behaves as
\* new_game (one reset, no resize, the options unchanged); with other
\* parameters it stores them in the options, sends exactly one
\* resize(x, y, mines) and only then performs new_game, so that a reset comes
\* after the resize.
C25_Resize ==
    (pc = "ctrl" /\ call.op = "resize_board") =>
        IF call.arg = BoardOf(call.opts)
        THEN /\ ctrl.opts = call.opts
             /\ IF exc = "none"
                THEN /\ ctrl.notifs = <<Notif("reset", <<>>)>>
                     /\ FreshGame(game, ctrl.opts)
                     /\ ctrl.last_update = SharedInfo
                ELSE ctrl.notifs = <<>> /\ game = call.before
        ELSE /\ ctrl.opts = [call.opts EXCEPT !.x_size = call.arg[1],
                                              !.y_size = call.arg[2],
                                              !.mines = call.arg[3]]
             /\ IF exc = "none"
                THEN /\ ctrl.notifs = <<Notif("resize", call.arg), Notif("reset", <<>>)>>
                     /\ FreshGame(game, ctrl.opts)
                     /\ ctrl.last_update = SharedInfo
                ELSE ctrl.notifs = <<Notif("resize", call.arg)>> /\ game = call.before

\* A resize to another board on which a new game was made.
C25_Witness ==
    /\ pc = "ctrl"
    /\ call.op = "resize_board"
    /\ call.arg # BoardOf(call.opts)
    /\ exc = "none"
    /\ Len(ctrl.notifs) = 2

\* C26: when resize_board or set_per_cell asks for parameters whose mines do
\* not fit the grid, the construction error aborts the change: the previous
\* game stays the current one, the options keep their previous values, and
\* no resize or reset is sent.
C26_AbortedChange ==
    (pc = "ctrl" /\ call.op \in {"resize_board", "set_per_cell"} /\ exc # "none") =>
        /\ game = call.before
        /\ ctrl.opts = call.opts
        /\ ctrl.notifs = <<>>

(***************************************************************************)
(* Caller (core/api.py): passing notifications on to the listeners         *)
(***************************************************************************)
\* The listeners that can be registered, and the longest list of them.
MaxListeners == 3
Listeners == 1..MaxListeners

\* The notifications passed on.
Methods == {"reset", "update_cells"}

\* What a listener does with one notification: it returns ("ok"), it raises
\* and its handle_exception returns ("raises"), or it raises and its
\* handle_exception raises as well ("handler_raises").
Reactions == {"ok", "raises", "handler_raises"}

\* One call made on a listener.
ListenerCall(listener, method, arg) == [to |-> listener, method |-> method, arg |-> arg]

RECURSIVE call_listeners(_, _, _, _)
\* Caller._call_registered, the loop of wrapped: each listener is called in
\* the order of the list; an exception of the listener is passed to its
\* handle_exception, and an exception of handle_exception leaves the loop.
\* (The Caller's own method, called first, only logs.)
call_listeners(listeners, func, how, log) ==
    IF listeners = <<>> THEN [log |-> log, raised |-> FALSE]
    ELSE LET listener == Head(listeners)
             called == Append(log, ListenerCall(listener, func, <<>>))
             handled == Append(called, ListenerCall(listener, "handle_exception", func))
         IN  IF how[listener] = "ok"
             THEN call_listeners(Tail(listeners), func, how, called)
             ELSE IF how[listener] = "raises"
             THEN call_listeners(Tail(listeners), func, how, handled)
             ELSE [log |-> handled, raised |-> TRUE]

\* list.remove(listener): the first occurrence is removed.
RemoveFirst(s, e) ==
    IF \A i \in DOMAIN s : s[i] # e THEN s
    ELSE LET k == CHOOSE i \in DOMAIN s : s[i] = e /\ \A j \in 1..(i - 1) : s[j] # e
         IN  SubSeq(s, 1, k - 1) \o SubSeq(s, k + 1, Len(s))

\* Before the Caller is constructed.
CallerInit ==
    /\ args = [ctor |-> "caller"]
    /\ pc = "start"
    /\ exc = "none"
    /\ mf = NoMinefield
    /\ popRule = "first"
    /\ game = NoGame
    /\ ncalls = 0
    /\ call = NoCall
    /\ ctrl = NoCtrl
    /\ caller = NoCaller
    /\ gridObj = NoGrid
    /\ search = NoSearch
    /\ widget = NoWidget

\* Caller.__init__ without listeners.
CallerNew ==
    /\ pc = "start"
    /\ args.ctor = "caller"
    /\ caller' = [listeners |-> <<>>, log |-> <<>>, raised |-> FALSE]
    /\ pc' = "caller"
    /\ UNCHANGED <<args, exc, mf, popRule, game, ncalls, call, ctrl, gridObj, search, widget>>

\* Caller.register_listener.
RegisterListener ==
    /\ pc = "caller"
    /\ Len(caller.listeners) < MaxListeners
    /\ \E listener \in Listeners :
          /\ caller' = [listeners |-> Append(caller.listeners, listener),
                        log |-> <<>>, raised |-> FALSE]
          /\ call' = [op |-> "register_listener", arg |-> listener,
                      listeners |-> caller.listeners]
    /\ UNCHANGED <<args, pc, exc, mf, popRule, game, ncalls, ctrl, gridObj, search, widget>>

\* Caller.unregister_listener.
UnregisterListener ==
    /\ pc = "caller"
    /\ \E listener \in Listeners :
          /\ caller' = [listeners |-> RemoveFirst(caller.listeners, listener),
                        log |-> <<>>, raised |-> FALSE]
          /\ call' = [op |-> "unregister_listener", arg |-> listener,
                      listeners |-> caller.listeners]
    /\ UNCHANGED <<args, pc, exc, mf, popRule, game, ncalls, ctrl, gridObj, search, widget>>

\* A notification passed to the Caller (the wrapped method of
\* _call_registered), with what each listener does with it.
Notify ==
    /\ pc = "caller"
    /\ \E func \in Methods, how \in [Listeners -> Reactions] :
          LET r == call_listeners(caller.listeners, func, how, <<>>)
          IN  /\ caller' = [listeners |-> caller.listeners, log |-> r.log,
                            raised |-> r.raised]
              /\ call' = [op |-> "notify", arg |-> func, how |-> how,
                          listeners |-> caller.listeners]
    /\ UNCHANGED <<args, pc, exc, mf, popRule, game, ncalls, ctrl, gridObj, search, widget>>

\* What the callback of a listener does with the Caller while it handles a
\* notification: nothing, register_listener(l) or unregister_listener(l).
Callbacks ==
    {[do |-> "nothing", l |-> 0]}
        \cup {[do |-> d, l |-> l] : d \in {"register", "unregister"}, l \in Listeners}

\* self._listeners after the callback cb has run.  (A callback registers
\* only while the list is shorter than MaxListeners.)
after_callback(listeners, cb) ==
    IF cb.do = "register"
    THEN IF Len(listeners) < MaxListeners THEN Append(listeners, cb.l) ELSE listeners
    ELSE IF cb.do = "unregister" THEN RemoveFirst(listeners, cb.l)
    ELSE listeners

RECURSIVE call_listeners_reentrant(_, _, _, _, _)
\* Caller._call_registered, the loop of wrapped when the listeners return
\* normally but call register_listener or unregister_listener from their
\* callbacks: the for loop reads self._listeners[i] for i = 0, 1, ... until i
\* reaches the length the list has by then.  (i counts from 1 here.)
call_listeners_reentrant(listeners, i, func, does, log) ==
    IF i > Len(listeners) THEN [listeners |-> listeners, log |-> log]
    ELSE LET listener == listeners[i]
         IN  call_listeners_reentrant(after_callback(listeners, does[listener]), i + 1,
                                      func, does,
                                      Append(log, ListenerCall(listener, func, <<>>)))

\* The callbacks of the listeners when that of the listener who is cb and
\* the others leave the Caller alone.
OneCallback(who, cb) ==
    [l \in Listeners |-> IF l = who THEN cb ELSE [do |-> "nothing", l |-> 0]]

\* A notification passed to the Caller, one of whose listeners calls back
\* into the Caller.
NotifyCallbacks ==
    /\ pc = "caller"
    /\ \E func \in Methods, does \in {OneCallback(who, cb) : who \in Listeners, cb \in Callbacks} :
          LET r == call_listeners_reentrant(caller.listeners, 1, func, does, <<>>)
          IN  /\ caller' = [listeners |-> r.listeners, log |-> r.log, raised |-> FALSE]
              /\ call' = [op |-> "notify_callbacks", arg |-> func, does |-> does,
                          listeners |-> caller.listeners]
    /\ UNCHANGED <<args, pc, exc, mf, popRule, game, ncalls, ctrl, gridObj, search, widget>>

CallerNext ==
    CallerNew \/ RegisterListener \/ UnregisterListener \/ Notify \/ NotifyCallbacks
SpecCaller == CallerInit /\ [][CallerNext]_vars

\* The calls of the log that are calls of method, in their order.
CallsOf(log, method) == SelectSeq(log, LAMBDA e : e.method = method)

\* C27: a notification is delivered to every registered listener in the
\* order of registration; a listener that raises does not keep the
\* listeners after it from receiving the notification and does not make the
\* notifying call fail: its error is reported to that listener alone through
\* handle_exception(method name, error), whatever handle_exception does.
C27_Isolation ==
    (pc = "caller" /\ call.op = "notify") =>
        /\ ~caller.raised
        /\ CallsOf(caller.log, call.arg) =
              [i \in DOMAIN caller.listeners |->
                  ListenerCall(caller.listeners[i], call.arg, <<>>)]
        /\ \A i \in DOMAIN caller.log :
              caller.log[i].method = "handle_exception" =>
                  /\ i > 1
                  /\ caller.log[i - 1] = ListenerCall(caller.log[i].to, call.arg, <<>>)
                  /\ call.how[caller.log[i].to] # "ok"
        /\ \A i \in DOMAIN caller.log :
              (caller.log[i].method = call.arg /\ call.how[caller.log[i].to] # "ok") =>
                  /\ i < Len(caller.log)
                  /\ caller.log[i + 1] =
                        ListenerCall(caller.log[i].to, "handle_exception", call.arg)

(***************************************************************************)
(* Grid (shared/utils.py): the accessors and get_nbrs                      *)
(***************************************************************************)
\* Grids: the largest sizes, the number of calls made on one gridObj, and how far
\* outside the gridObj the keys of the accessors lie.
GridMaxX == 3
GridMaxY == 3
MaxGridCalls == 2
GridKeyMargin == 1

\* The values stored in the cells.
GridValues == {0, 1}

\* The keys (x, y) the accessors are called with.
GridKeys == (-GridMaxX - GridKeyMargin .. GridMaxX + GridKeyMargin - 1)
               \X (-GridMaxY - GridKeyMargin .. GridMaxY + GridKeyMargin - 1)

\* list[i] on a list of length n: whether the index is accepted (Python also
\* accepts -n .. -1), and the position it stands for.
index_ok(i, n) == -n <= i /\ i < n
index_pos(i, n) == IF i < 0 THEN i + n ELSE i

\* Grid.__getitem__ / __setitem__ with a 2-tuple key: whether self[key[1]][key[0]]
\* raises IndexError, and the cell it stands for.
key_raises(g, key) == ~index_ok(key[2], g.y_size) \/ ~index_ok(key[1], g.x_size)
key_cell(g, key) == <<index_pos(key[1], g.x_size), index_pos(key[2], g.y_size)>>

\* Before the gridObj is constructed.
GridInit ==
    /\ args \in {[ctor |-> "grid", x_size |-> x, y_size |-> y, fill |-> 0] :
                    x \in 1..GridMaxX, y \in 1..GridMaxY}
    /\ pc = "start"
    /\ exc = "none"
    /\ mf = NoMinefield
    /\ popRule = "first"
    /\ game = NoGame
    /\ ncalls = 0
    /\ call = NoCall
    /\ ctrl = NoCtrl
    /\ caller = NoCaller
    /\ gridObj = NoGrid
    /\ search = NoSearch
    /\ widget = NoWidget

\* Grid.__init__.
GridNew ==
    /\ pc = "start"
    /\ args.ctor = "grid"
    /\ gridObj' = [x_size |-> args.x_size, y_size |-> args.y_size,
                cells |-> Grid(args.x_size, args.y_size, args.fill)]
    /\ pc' = "grid"
    /\ UNCHANGED <<args, exc, mf, popRule, game, ncalls, call, ctrl, caller, search, widget>>

\* A call of Grid.__getitem__ with a 2-tuple.
GridGetItem ==
    /\ pc = "grid"
    /\ ncalls < MaxGridCalls
    /\ \E key \in GridKeys :
          /\ call' = [op |-> "getitem", key |-> key, before |-> gridObj,
                      raised |-> key_raises(gridObj, key),
                      result |-> IF key_raises(gridObj, key) THEN <<>>
                                 ELSE <<gridObj.cells[key_cell(gridObj, key)]>>]
          /\ exc' = IF key_raises(gridObj, key) THEN "IndexError" ELSE "none"
    /\ ncalls' = ncalls + 1
    /\ UNCHANGED <<args, pc, mf, popRule, game, ctrl, caller, gridObj, search, widget>>

\* A call of Grid.__setitem__ with a 2-tuple.
GridSetItem ==
    /\ pc = "grid"
    /\ ncalls < MaxGridCalls
    /\ \E key \in GridKeys, value \in GridValues :
          /\ call' = [op |-> "setitem", key |-> key, value |-> value, before |-> gridObj,
                      raised |-> key_raises(gridObj, key), result |-> <<>>]
          /\ exc' = IF key_raises(gridObj, key) THEN "IndexError" ELSE "none"
          /\ gridObj' = IF key_raises(gridObj, key) THEN gridObj
                     ELSE [gridObj EXCEPT !.cells[key_cell(gridObj, key)] = value]
    /\ ncalls' = ncalls + 1
    /\ UNCHANGED <<args, pc, mf, popRule, game, ctrl, caller, search, widget>>

\* A call of Grid.get_nbrs on a coordinate of the gridObj.
GridGetNbrs ==
    /\ pc = "grid"
    /\ ncalls < MaxGridCalls
    /\ \E key \in CoordSet(gridObj.x_size, gridObj.y_size), include_origin \in BOOLEAN :
          call' = [op |-> "get_nbrs", key |-> key, include_origin |-> include_origin,
                   before |-> gridObj, raised |-> FALSE,
                   result |-> get_nbrs(gridObj.x_size, gridObj.y_size, key, include_origin)]
    /\ exc' = "none"
    /\ ncalls' = ncalls + 1
    /\ UNCHANGED <<args, pc, mf, popRule, game, ctrl, caller, gridObj, search, widget>>

GridNext == GridNew \/ GridGetItem \/ GridSetItem \/ GridGetNbrs
SpecGrid == GridInit /\ [][GridNext]_vars

\* The absolute value of an integer.
Abs(i) == IF i < 0 THEN -i ELSE i

\* The coordinates of the grid g within Chebyshev distance 1 of c.
Within1(g, c) ==
    {d \in CoordSet(g.x_size, g.y_size) : Abs(d[1] - c[1]) <= 1 /\ Abs(d[2] - c[2]) <= 1}

\* Whether the coordinates of the list s come in the order of the scan of the
\* block: by x, then by y, each once.
ScanOrder(s) ==
    \A i, j \in DOMAIN s :
        i < j => (s[i][1] < s[j][1] \/ (s[i][1] = s[j][1] /\ s[i][2] < s[j][2]))

\* What holds of every neighbour list, whatever the grid: the coordinates
\* within distance 1, the coordinate itself only with include_origin, each
\* once and in the order of the scan, at most 8 without the origin.
NbrsExact ==
    /\ Range(call.result) =
          IF call.include_origin THEN Within1(gridObj, call.key)
          ELSE Within1(gridObj, call.key) \ {call.key}
    /\ ScanOrder(call.result)
    /\ Len(SeqRemove(call.result, call.key)) <= 8

\* C28 as stated: for every grid and every coordinate of it, the neighbour
\* list holds exactly the coordinates of the grid within Chebyshev distance 1
\* (the coordinate itself only with include_origin), without duplicates, in a
\* fixed order, and without the origin it has at least 3 and at most 8
\* entries.
C28_Original ==
    (pc = "grid" /\ call.op = "get_nbrs") =>
        /\ NbrsExact
        /\ Len(SeqRemove(call.result, call.key)) >= 3

\* C28, amended: as stated, but the list without the origin has at least 3
\* entries only on a grid with at least 2 columns and 2 rows; on a grid with
\* one row or one column it has at most 2.
C28_Nbrs ==
    (pc = "grid" /\ call.op = "get_nbrs") =>
        /\ NbrsExact
        /\ (gridObj.x_size >= 2 /\ gridObj.y_size >= 2)
              => Len(SeqRemove(call.result, call.key)) >= 3
        /\ (gridObj.x_size = 1 \/ gridObj.y_size = 1)
              => Len(SeqRemove(call.result, call.key)) <= 2

\* The neighbours of the middle cell of a grid with three columns and rows.
C28_Witness ==
    /\ pc = "grid"
    /\ call.op = "get_nbrs"
    /\ ~call.include_origin
    /\ Len(call.result) = 8

\* C29: get and set with a coordinate outside [0, x_size) x [0, y_size),
\* negative components included, fail with an out-of-range error and leave
\* every cell unchanged; with a coordinate inside, set changes exactly that
\* cell and get returns the value last set there; the sizes never change.
C29_Accessors ==
    (pc = "grid" /\ call.op \in {"getitem", "setitem"}) =>
        /\ gridObj.x_size = call.before.x_size
        /\ gridObj.y_size = call.before.y_size
        /\ IF call.key \in CoordSet(call.before.x_size, call.before.y_size)
           THEN /\ ~call.raised
                /\ call.op = "setitem" =>
                      gridObj.cells = [call.before.cells EXCEPT ![call.key] = call.value]
                /\ call.op = "getitem" =>
                      /\ call.result = <<call.before.cells[call.key]>>
                      /\ gridObj = call.before
           ELSE /\ call.raised
                /\ gridObj = call.before

\* C34: whenever the first-success option is enabled when the first
\* select_cell of a game made by new_game is called, that first reveal is not
\* a mine, also when set_first_success(True) was called after the game was
\* made and before the first click.
C34_FirstSuccessOption ==
    (/\ pc = "ctrl"
     /\ call.op = "select_cell"
     /\ call.made_by = "new_game"
     /\ call.before.state = "READY"
     /\ call.opts.first_success)
        => game.board[call.arg].t \notin {"HitMine", "Mine"}

\* The place of a notification of _send_updates in the order of the claim.
Rank(name) ==
    CASE name = "update_cells" -> 1
      [] name = "update_mines_remaining" -> 2
      [] name = "update_game_state" -> 3
      [] name = "set_finish_time" -> 4
      [] OTHER -> 0

\* The notifications of the last call that carry an update of the game state.
StateNotifs == {i \in DOMAIN ctrl.notifs : ctrl.notifs[i].name = "update_game_state"}

\* C35: the notifications of one controller action come in the order
\* update_cells, update_mines_remaining, update_game_state, set_finish_time,
\* and when the game state after select_cell, chord_on_cell, flag_cell or
\* remove_cell_flags differs from the state last reported to the listeners
\* (READY after a reset) exactly one update_game_state with the new state is
\* sent.
C35_NotificationOrder ==
    pc = "ctrl" =>
        /\ \A i, j \in DOMAIN ctrl.notifs :
               (i < j /\ Rank(ctrl.notifs[i].name) > 0 /\ Rank(ctrl.notifs[j].name) > 0)
                   => Rank(ctrl.notifs[i].name) < Rank(ctrl.notifs[j].name)
        /\ (call # NoCall /\ call.op \in CellMethods /\ game.state # call.seen.game_state)
               => /\ Cardinality(StateNotifs) = 1
                  /\ \A i \in StateNotifs : ctrl.notifs[i].arg = game.state

\* A call that ended the game sent all four notifications.
C35_Witness ==
    /\ pc = "ctrl"
    /\ call # NoCall
    /\ call.op \in CellMethods
    /\ game.state # call.seen.game_state
    /\ [i \in DOMAIN ctrl.notifs |-> ctrl.notifs[i].name]
           = <<"update_cells", "update_mines_remaining", "update_game_state",
               "set_finish_time">>

\* The flag count of a cell: 0 when it holds no flag.
NrFlags(cell) == IF cell.t = "Flag" THEN cell.n ELSE 0

\* The cell that follows cell in the cycle of flag_cell with the limit per_cell.
NextInCycle(cell, per_cell) ==
    IF NrFlags(cell) = per_cell THEN CellUnclicked ELSE CellFlag(NrFlags(cell) + 1)

\* One call of flag_cell in a game that is not finished, on a cell that is
\* Unclicked or holds at most per_cell flags, is one step of the cycle, and
\* mines_remaining goes down by the flags it added; with flag_only at
\* Flag(per_cell) nothing changes and nothing is sent.
C36_CycleStep ==
    (/\ pc = "ctrl"
     /\ call # NoCall
     /\ call.op = "flag_cell"
     /\ ~finished(call.before.state)
     /\ call.before.board[call.arg[1]].t \in {"Unclicked", "Flag"}
     /\ NrFlags(call.before.board[call.arg[1]]) <= call.opts.per_cell)
        => LET coord == call.arg[1]
               old == call.before.board[coord]
           IN  IF call.arg[2] /\ NrFlags(old) = call.opts.per_cell
               THEN /\ game = call.before
                    /\ ctrl.notifs = <<>>
               ELSE /\ game.board = [call.before.board EXCEPT
                                        ![coord] = NextInCycle(old, call.opts.per_cell)]
                    /\ game.mines_remaining =
                           call.before.mines_remaining + NrFlags(old)
                               - NrFlags(game.board[coord])

\* No cell holds more flags than per_cell, be it the option of the controller
\* or the per_cell of the game being played.
C36_FlagLimit ==
    pc = "ctrl" =>
        \A c \in GameCoords :
            \/ NrFlags(game.board[c]) <= ctrl.opts.per_cell
            \/ NrFlags(game.board[c]) <= game.per_cell

\* C36: in a game that is not finished flag_cell cycles an Unclicked cell
\* through Flag(1), ..., Flag(per_cell) and back to Unclicked, so that
\* per_cell + 1 calls restore the cell and mines_remaining; no flag count
\* exceeds per_cell, whatever calls of set_per_cell come in between; and with
\* flag_only a cell at Flag(per_cell) is left as it is and nothing is sent.
C36_FlagCycle == C36_CycleStep /\ C36_FlagLimit

\* Before a grid is chosen for Minefield.from_grid.
LayoutIdle ==
    /\ args = [ctor |-> "none"]
    /\ pc = "idle"
    /\ exc = "none"
    /\ mf = NoMinefield
    /\ popRule = "first"
    /\ game = NoGame
    /\ ncalls = 0
    /\ call = NoCall
    /\ ctrl = NoCtrl
    /\ caller = NoCaller
    /\ gridObj = NoGrid
    /\ search = NoSearch
    /\ widget = NoWidget

\* The caller of Minefield.from_grid chooses the grid and per_cell.
ChooseGrid ==
    /\ pc = "idle"
    /\ \E size \in LayoutGrids, p \in 1..MaxPerCell :
          \E g \in LayoutsFor(size[1], size[2]) : args' = LayoutArgs(size, g, p)
    /\ pc' = "start"
    /\ UNCHANGED <<exc, mf, popRule, game, ncalls, call, ctrl, caller, gridObj, search, widget>>

\* _find_openings is entered on the minefield whose completed board is
\* computed: openings = [] and blanks_to_check the Num(0) cells.
SearchBegin ==
    /\ pc = "done"
    /\ args.ctor = "grid"
    /\ search' = [openings |-> <<>>,
                  blanks_to_check |-> {c \in MfCoords : mf.completed_board[c] = CellNum(0)},
                  opening |-> {}, check |-> {}]
    /\ pc' = "outer"
    /\ args' = [ctor |-> "search"]
    /\ UNCHANGED <<exc, mf, popRule, game, ncalls, call, ctrl, caller, gridObj, widget>>

\* _find_openings, one turn of the outer loop up to the inner loop:
\* blanks_to_check.pop() hands out any of its elements.
OuterPop ==
    /\ pc = "outer"
    /\ \E orig_coord \in search.blanks_to_check :
          search' = [search EXCEPT !.blanks_to_check = @ \ {orig_coord},
                                   !.opening = {orig_coord},
                                   !.check = {orig_coord}]
    /\ pc' = "inner"
    /\ UNCHANGED <<args, exc, mf, popRule, game, ncalls, call, ctrl, caller, gridObj, widget>>

\* _find_openings, one turn of the inner loop: check.pop() hands out any of
\* its elements.
InnerStep ==
    /\ pc = "inner"
    /\ \E coord \in search.check :
          LET nbrs == NbrSet(mf.x_size, mf.y_size, coord)
              blank == {c \in nbrs \ search.opening : mf.completed_board[c] = CellNum(0)}
          IN  search' = [search EXCEPT !.check = (@ \ {coord}) \cup blank,
                                       !.opening = opening_add(@, nbrs, blank)]
    /\ UNCHANGED <<args, pc, exc, mf, popRule, game, ncalls, call, ctrl, caller, gridObj, widget>>

\* _find_openings, the end of a turn of the outer loop, once check is empty.
OuterAppend ==
    /\ pc = "inner"
    /\ search.check = {}
    /\ search' = [search EXCEPT !.openings = Append(@, search.opening),
                                !.blanks_to_check = blanks_after(@, search.opening)]
    /\ pc' = "outer"
    /\ UNCHANGED <<args, exc, mf, popRule, game, ncalls, call, ctrl, caller, gridObj, widget>>

\* _find_openings returns openings once blanks_to_check is empty.
SearchEnd ==
    /\ pc = "outer"
    /\ search.blanks_to_check = {}
    /\ pc' = "found"
    /\ UNCHANGED <<args, exc, mf, popRule, game, ncalls, call, ctrl, caller, gridObj, search,
                   widget>>

\* The steps of _find_openings.
SearchStep == OuterPop \/ InnerStep \/ OuterAppend \/ SearchEnd

\* _find_openings run step by step on the minefields made from a grid; the
\* search, once entered, is not suspended for ever.
OpeningsNext == ChooseGrid \/ FromGrid \/ SearchBegin \/ SearchStep
SpecOpenings == LayoutIdle /\ [][OpeningsNext]_vars /\ WF_vars(SearchStep)

\* The openings found that hold the cell c.
OpeningsWith(c) == {i \in DOMAIN search.openings : c \in search.openings[i]}

\* The cells of S and all their neighbours.
WithNbrs(S) == S \cup {d \in MfCoords : \E c \in S : Adjacent(c, d)}

\* Every zero cell is in exactly one of the openings returned, and each of
\* them is one 8-connected component of zero cells with all the neighbours of
\* its cells.
OpeningsAreRegions ==
    (pc = "found") =>
        /\ \A c \in ZeroCells : Cardinality(OpeningsWith(c)) = 1
        /\ \A i \in DOMAIN search.openings :
              \E region \in ZeroRegions : search.openings[i] = WithNbrs(region)

\* The openings returned are those of the minefield, whatever the order in
\* which the sets were popped.
SameOpenings == (pc = "found") => Range(search.openings) = Range(mf.openings)

TimesIn(listeners, l) == Cardinality({i \in DOMAIN listeners : listeners[i] = l})

\* C37: every listener registered when a notification starts receives it
\* exactly once, also when listeners register or unregister listeners from
\* inside their callbacks; and a listener registered more than once and then
\* unregistered once receives no further notification (it is no longer in
\* the list).
C37_Reentrancy ==
    (pc = "caller" /\ call # NoCall) =>
        /\ call.op = "notify_callbacks" =>
              \A l \in Range(call.listeners) :
                  TimesIn(CallsOf(caller.log, call.arg), ListenerCall(l, call.arg, <<>>)) = 1
        /\ (call.op = "unregister_listener" /\ TimesIn(call.listeners, call.arg) > 1) =>
              TimesIn(caller.listeners, call.arg) = 0

(***************************************************************************)
(* MinefieldWidget (frontend/minefield.py): mouse events                   *)
(***************************************************************************)
\* The board the widget is shown with (x_size, y_size, mines), and the number
\* of events it is sent.
WidgetBoard == <<3, 1, 1>>
MaxWidgetEvents == 6

\* coord_from_event: None when the cursor is off the board.
NoneCoord == <<>>

\* The mouse buttons the widget listens to.
Buttons == {"left", "right"}

\* The state a handler of the widget works on: the widget w, its controller c
\* and the game g of the controller.
WidgetState(w, c, g) == [w |-> w, c |-> c, g |-> g]

\* signal.emit().
emit(st, signal) == [st EXCEPT !.w.signals = Append(@, signal)]

\* MinefieldWidget.set_cell_image: the image of the cell at coord is set.
set_cell_image(st, coord, state) == [st EXCEPT !.w.images = Append(@, <<coord, state>>)]

\* MinefieldWidget.update_game_state, called with the state of each
\* update_game_state notification the controller sent in its last call.
update_game_state(st) ==
    LET sent == {i \in DOMAIN st.c.notifs : st.c.notifs[i].name = "update_game_state"}
    IN  IF sent = {} THEN st
        ELSE [st EXCEPT !.w._game_state =
                            st.c.notifs[CHOOSE i \in sent : \A j \in sent : j <= i].arg]

\* A call the widget makes on its controller, with the outcome out of the
\* controller's method: the call is noted and the widget hears of the new
\* game state.  With coord None the controller raises and nothing changes.
ctrlr_call(st, op, coord, out) ==
    LET noted == [st EXCEPT !.w.calls = Append(@, [op |-> op, coord |-> coord])]
    IN  IF coord = NoneCoord THEN [noted EXCEPT !.w.raised = TRUE]
        ELSE update_game_state([noted EXCEPT !.c = out.ctrl, !.g = out.game])

\* The controller of the widget at the start of one of its methods.
CalledOf(st) == [st.c EXCEPT !.notifs = <<>>]

\* self.ctrlr.select_cell(coord): first_success is off, so that the outcome
\* is the only one.
ctrlr_select_cell(st, coord) ==
    ctrlr_call(st, "select_cell", coord,
               IF coord = NoneCoord THEN Outcome(st.c, st.g, TRUE)
               ELSE CHOOSE o \in ctrl_select_cell(CalledOf(st), st.g, coord, ncalls + 1) : TRUE)

\* self.ctrlr.flag_cell(coord, flag_only=flag_only).
ctrlr_flag_cell(st, coord, flag_only) ==
    ctrlr_call(st, IF flag_only THEN "flag_cell(flag_only)" ELSE "flag_cell", coord,
               IF coord = NoneCoord THEN Outcome(st.c, st.g, TRUE)
               ELSE flag_cell(CalledOf(st), st.g, coord, flag_only, ncalls + 1))

\* self.ctrlr.remove_cell_flags(coord).
ctrlr_remove_cell_flags(st, coord) ==
    ctrlr_call(st, "remove_cell_flags", coord,
               IF coord = NoneCoord THEN Outcome(st.c, st.g, TRUE)
               ELSE remove_cell_flags(CalledOf(st), st.g, coord, ncalls + 1))

\* self.ctrlr.chord_on_cell(coord).
ctrlr_chord_on_cell(st, coord) ==
    ctrlr_call(st, "chord_on_cell", coord,
               IF coord = NoneCoord THEN Outcome(st.c, st.g, TRUE)
               ELSE ctrl_chord_on_cell(CalledOf(st), st.g, coord, ncalls + 1))

\* MinefieldWidget.sink_unclicked_cell.
sink_unclicked_cell(st, coord) ==
    IF finished(st.w._game_state) THEN st
    ELSE LET st1 == IF st.g.board[coord] = CellUnclicked
                    THEN [set_cell_image(st, coord, "btn_down")
                            EXCEPT !.w.sunken_cells = @ \cup {coord}]
                    ELSE st
         IN  IF st1.w.sunken_cells # {} THEN emit(st1, "at_risk") ELSE st1

RECURSIVE raise_all_sunken_cells(_)
\* MinefieldWidget.raise_all_sunken_cells.
raise_all_sunken_cells(st) ==
    IF st.w.sunken_cells = {} THEN st
    ELSE LET coord == SetPop(st.w.sunken_cells)
             st1 == [st EXCEPT !.w.sunken_cells = @ \ {coord}]
         IN  raise_all_sunken_cells(IF st1.g.board[coord] = CellUnclicked
                                    THEN set_cell_image(st1, coord, "btn_up")
                                    ELSE st1)

\* MinefieldWidget.left_button_down.
left_button_down(st, coord) ==
    IF st.w.drag_select THEN ctrlr_select_cell(emit(st, "at_risk"), coord)
    ELSE sink_unclicked_cell(st, coord)

\* MinefieldWidget.left_button_double_down.
left_button_double_down(st, coord) == ctrlr_remove_cell_flags(st, coord)

\* MinefieldWidget.left_button_move.
left_button_move(st, coord) ==
    LET st1 == emit(raise_all_sunken_cells(st), "no_risk")
    IN  IF coord # NoneCoord THEN left_button_down(st1, coord) ELSE st1

\* MinefieldWidget.left_button_double_move.
left_button_double_move(st, coord) ==
    IF st.w.drag_select THEN left_button_double_down(st, coord) ELSE st

\* MinefieldWidget.left_button_release, mutated: the cell that sank last is
\* selected, wherever the cursor is.
left_button_release_pressed(st, coord) ==
    LET st1 == emit(raise_all_sunken_cells(st), "no_risk")
    IN  IF ~st1.w.drag_select /\ st1.w.pressed # NoneCoord
        THEN ctrlr_select_cell(st1, st1.w.pressed) ELSE st1

\* MinefieldWidget.left_button_release.
left_button_release(st, coord) ==
    LET st1 == emit(raise_all_sunken_cells(st), "no_risk")
    IN  IF ~st1.w.drag_select /\ coord # NoneCoord THEN ctrlr_select_cell(st1, coord) ELSE st1

\* MinefieldWidget.right_button_down.
right_button_down(st, coord) ==
    LET st1 == ctrlr_flag_cell(st, coord, FALSE)
    IN  [st1 EXCEPT !.w.unflag_on_right_drag = (st1.g.board[coord] = CellUnclicked)]

\* MinefieldWidget.right_button_move, mutated: drag_select is not looked at.
right_button_move_always(st, coord) ==
    IF coord # NoneCoord
    THEN IF st.w.unflag_on_right_drag THEN ctrlr_remove_cell_flags(st, coord)
         ELSE ctrlr_flag_cell(st, coord, TRUE)
    ELSE st

\* MinefieldWidget.right_button_move.
right_button_move(st, coord) ==
    IF coord # NoneCoord /\ st.w.drag_select
    THEN IF st.w.unflag_on_right_drag THEN ctrlr_remove_cell_flags(st, coord)
         ELSE ctrlr_flag_cell(st, coord, TRUE)
    ELSE st

RECURSIVE sink_cells(_, _)
\* The loop of both_buttons_down over the neighbours.
sink_cells(st, coords) ==
    IF coords = <<>> THEN st
    ELSE sink_cells(sink_unclicked_cell(st, Head(coords)), Tail(coords))

\* isinstance(cell, CellMineType): a flag, a wrong flag, a mine or a hit mine.
CellMineType(cell) == cell.t \in {"Flag", "WrongFlag", "Mine", "HitMine"}

\* MinefieldWidget.both_buttons_down.
both_buttons_down(st, coord) ==
    LET st1 == IF ~CellMineType(st.g.board[coord])
               THEN sink_cells(st, get_nbrs(st.g.x_size, st.g.y_size, coord, TRUE))
               ELSE st
    IN  IF st1.w.drag_select THEN ctrlr_chord_on_cell(emit(st1, "at_risk"), coord) ELSE st1

\* MinefieldWidget.both_buttons_move.
both_buttons_move(st, coord) ==
    LET st1 == raise_all_sunken_cells(st)
        st2 == IF ~st1.w.drag_select THEN emit(st1, "no_risk") ELSE st1
    IN  IF coord # NoneCoord THEN both_buttons_down(st2, coord) ELSE st2

\* MinefieldWidget.first_of_both_buttons_release.
first_of_both_buttons_release(st, coord) ==
    LET st1 == raise_all_sunken_cells(st)
    IN  IF ~st1.w.drag_select
        THEN LET st2 == emit(st1, "no_risk")
             IN  IF coord # NoneCoord THEN ctrlr_chord_on_cell(st2, coord) ELSE st2
        ELSE st1

\* MinefieldWidget.all_buttons_release.
all_buttons_release(st) ==
    LET st1 == IF st.w.drag_select THEN emit(st, "no_risk") ELSE st
    IN  [st1 EXCEPT !.w.mouse_coord = NoneCoord,
                    !.w.both_mouse_buttons_pressed = FALSE,
                    !.w.await_release_all_buttons = FALSE,
                    !.w.was_double_left_click = FALSE]

RECURSIVE set_cell_images(_, _, _)
\* The loop of reset over all_coords.
set_cell_images(st, coords, state) ==
    IF coords = <<>> THEN st
    ELSE set_cell_images(set_cell_image(st, Head(coords), state), Tail(coords), state)

\* MinefieldWidget.reset.
reset(st) ==
    set_cell_images([st EXCEPT !.w.mouse_coord = NoneCoord,
                               !.w.both_mouse_buttons_pressed = FALSE,
                               !.w.await_release_all_buttons = TRUE,
                               !.w._game_state = "READY"],
                    all_coords(st.g.x_size, st.g.y_size), "CellUnclicked")

\* MinefieldWidget.mousePressEvent, for an event of the left or the right
\* button: button is event.button(), buttons is event.buttons().
mousePressEvent(st, button, buttons, coord) ==
    LET alone == buttons = {button}
        st1 == IF alone THEN [st EXCEPT !.w.await_release_all_buttons = FALSE,
                                        !.w.both_mouse_buttons_pressed = FALSE]
               ELSE st
        st2 == [st1 EXCEPT !.w.mouse_coord = coord]
    IN  IF ~alone /\ st.w.await_release_all_buttons THEN st
        ELSE IF st1.w._ignore_clicks \/ st1.w.was_double_left_click THEN st1
        ELSE IF buttons = Buttons
        THEN both_buttons_down([st2 EXCEPT !.w.both_mouse_buttons_pressed = TRUE], coord)
        ELSE IF button = "left"
        THEN left_button_down([st2 EXCEPT !.w.was_double_left_click = FALSE], coord)
        ELSE right_button_down(st2, coord)

\* MinefieldWidget.mouseDoubleClickEvent.
mouseDoubleClickEvent(st, button, buttons, coord) ==
    IF button = "right" THEN mousePressEvent(st, button, buttons, coord)
    ELSE IF ~st.w.both_mouse_buttons_pressed
    THEN left_button_double_down([st EXCEPT !.w.was_double_left_click = TRUE], coord)
    ELSE st

\* MinefieldWidget.mouseMoveEvent.
mouseMoveEvent(st, buttons, coord) ==
    LET st1 == [st EXCEPT !.w.mouse_coord = coord]
    IN  IF st.w._ignore_clicks THEN st
        ELSE IF buttons = {} \/ st.w.await_release_all_buttons \/ coord = st.w.mouse_coord
        THEN st
        ELSE IF st1.w.was_double_left_click
        THEN IF buttons = {"left"} THEN left_button_double_move(st1, coord) ELSE st1
        ELSE IF buttons = Buttons THEN both_buttons_move(st1, coord)
        ELSE IF ~st1.w.both_mouse_buttons_pressed \/ st1.w.drag_select
        THEN LET st2 == IF "left" \in buttons THEN left_button_move(st1, coord) ELSE st1
             IN  IF "right" \in buttons THEN right_button_move(st2, coord) ELSE st2
        ELSE st1

\* MinefieldWidget.mouseReleaseEvent: buttons is event.buttons(), the buttons
\* still down.
mouseReleaseEvent(st, button, buttons, coord) ==
    IF st.w.await_release_all_buttons /\ buttons = {}
    THEN [st EXCEPT !.w.await_release_all_buttons = FALSE]
    ELSE IF st.w._ignore_clicks THEN st
    ELSE LET st1 == IF buttons # {}
                    THEN LET st2 == first_of_both_buttons_release(st, coord)
                         IN  IF st2.w.drag_select /\ button = "left"
                             THEN emit(st2, "no_risk") ELSE st2
                    ELSE IF ~st.w.both_mouse_buttons_pressed
                    THEN IF button = "left" /\ ~st.w.was_double_left_click
                         THEN left_button_release(st, coord) ELSE st
                    ELSE st
         IN  IF buttons = {} THEN all_buttons_release(st1) ELSE st1

\* MinefieldWidget.__init__ up to the call of reset: the widget of the
\* controller c.  Besides the attributes of the widget the record holds the
\* mouse (the buttons that are down, the cell under the cursor, and the
\* gesture going on: the button that was pressed alone and has seen nothing
\* but moves since, and the cell it was pressed on) and what the last event
\* did: the calls made on the controller, the signals emitted, the
\* images set, and whether a call raised.
MinefieldWidget(drag_select) ==
    [drag_select |-> drag_select,
     mouse_coord |-> NoneCoord,
     both_mouse_buttons_pressed |-> FALSE,
     await_release_all_buttons |-> FALSE,
     was_double_left_click |-> FALSE,
     unflag_on_right_drag |-> FALSE,
     sunken_cells |-> {},
     _ignore_clicks |-> FALSE,
     _game_state |-> "READY",
     buttons |-> {}, cursor |-> <<0, 0>>, gesture |-> "none", pressed |-> NoneCoord,
     calls |-> <<>>, signals |-> <<>>, images |-> <<>>, raised |-> FALSE]

\* The arguments of Controller and MinefieldWidget.
WidgetArgs ==
    {[ctor |-> "widget", x_size |-> WidgetBoard[1], y_size |-> WidgetBoard[2],
      mines |-> WidgetBoard[3], per_cell |-> 1, lives |-> 1, first_success |-> FALSE,
      drag_select |-> d] : d \in BOOLEAN}

\* Before the controller and the widget are constructed.
WidgetInit ==
    /\ args \in WidgetArgs
    /\ pc = "start"
    /\ exc = "none"
    /\ mf = NoMinefield
    /\ popRule \in {"first", "last"}
    /\ game = NoGame
    /\ ncalls = 0
    /\ call = NoCall
    /\ ctrl = NoCtrl
    /\ caller = NoCaller
    /\ gridObj = NoGrid
    /\ search = NoSearch
    /\ widget = NoWidget

\* The widget at the start of the handling of an event.
Handling == [widget EXCEPT !.calls = <<>>, !.signals = <<>>, !.images = <<>>,
                           !.raised = FALSE]

\* The record of an event: its kind, its button and the cell under the
\* cursor, and the mouse, the sunken cells, the game state the widget knows
\* and the board before it.
WidgetEvent(op, button, coord) ==
    [op |-> op, button |-> button, coord |-> coord,
     before |-> [buttons |-> widget.buttons, cursor |-> widget.cursor,
                 gesture |-> widget.gesture, pressed |-> widget.pressed,
                 sunken_cells |-> widget.sunken_cells,
                 _game_state |-> widget._game_state],
     board |-> game.board]

\* What the handling of an event leaves: the state st and the mouse.
Handled(st, buttons, cursor, gesture) ==
    /\ widget' = [st.w EXCEPT !.buttons = buttons, !.cursor = cursor, !.gesture = gesture,
                              !.pressed = IF gesture = "none" THEN NoneCoord
                                          ELSE IF st.w.gesture = "none" THEN cursor
                                          ELSE @]
    /\ ctrl' = st.c
    /\ game' = st.g

\* Controller(opts) and MinefieldWidget(None, ctrlr, drag_select=...), whose
\* __init__ ends with reset.
WidgetNew ==
    /\ pc = "start"
    /\ args.ctor = "widget"
    /\ \E o \in new_game(Controller(args), game) :
          /\ ~o.raised
          /\ Handled(reset(WidgetState(MinefieldWidget(args.drag_select), o.ctrl, o.game)),
                     {}, <<0, 0>>, "none")
    /\ pc' = "widget"
    /\ UNCHANGED <<args, exc, mf, popRule, ncalls, call, caller, gridObj, search>>

\* A button goes down on the cell under the cursor.
MousePress ==
    /\ pc = "widget"
    /\ ncalls < MaxWidgetEvents
    /\ widget.cursor # NoneCoord
    /\ \E button \in Buttons \ widget.buttons :
          LET buttons == widget.buttons \cup {button}
              plain == /\ buttons = {button}
                       /\ ~widget._ignore_clicks
                       /\ ~widget.was_double_left_click
          IN  /\ Handled(mousePressEvent(WidgetState(Handling, ctrl, game), button, buttons,
                                         widget.cursor),
                         buttons, widget.cursor, IF plain THEN button ELSE "none")
              /\ call' = WidgetEvent("press", button, widget.cursor)
    /\ ncalls' = ncalls + 1
    /\ UNCHANGED <<args, pc, exc, mf, popRule, caller, gridObj, search>>

\* The second press of a double click: it follows the release of the same
\* button on the same cell.
MouseDoubleClick ==
    /\ pc = "widget"
    /\ ncalls < MaxWidgetEvents
    /\ widget.cursor # NoneCoord
    /\ call # NoCall
    /\ call.op = "release"
    /\ \E button \in Buttons \ widget.buttons :
          /\ call.button = button
          /\ Handled(mouseDoubleClickEvent(WidgetState(Handling, ctrl, game), button,
                                           widget.buttons \cup {button}, widget.cursor),
                     widget.buttons \cup {button}, widget.cursor, "none")
          /\ call' = WidgetEvent("double_click", button, widget.cursor)
    /\ ncalls' = ncalls + 1
    /\ UNCHANGED <<args, pc, exc, mf, popRule, caller, gridObj, search>>

\* The cursor moves, to another cell, within its cell or off the board.
MouseMove ==
    /\ pc = "widget"
    /\ ncalls < MaxWidgetEvents
    /\ \E coord \in GameCoords \cup {NoneCoord} :
          /\ Handled(mouseMoveEvent(WidgetState(Handling, ctrl, game), widget.buttons, coord),
                     widget.buttons, coord, widget.gesture)
          /\ call' = WidgetEvent("move", "none", coord)
    /\ ncalls' = ncalls + 1
    /\ UNCHANGED <<args, pc, exc, mf, popRule, caller, gridObj, search>>

\* A button goes up.
MouseRelease ==
    /\ pc = "widget"
    /\ ncalls < MaxWidgetEvents
    /\ \E button \in widget.buttons :
          /\ Handled(mouseReleaseEvent(WidgetState(Handling, ctrl, game), button,
                                       widget.buttons \ {button}, widget.cursor),
                     widget.buttons \ {button}, widget.cursor, "none")
          /\ call' = WidgetEvent("release", button, widget.cursor)
    /\ ncalls' = ncalls + 1
    /\ UNCHANGED <<args, pc, exc, mf, popRule, caller, gridObj, search>>

\* A new game is asked of the controller (by a key or by the panel); its
\* reset notification calls the reset of the widget.
WidgetNewGame ==
    /\ pc = "widget"
    /\ ncalls < MaxWidgetEvents
    /\ \E o \in new_game([ctrl EXCEPT !.notifs = <<>>], game) :
          /\ ~o.raised
          /\ Handled(reset(WidgetState(Handling, o.ctrl, o.game)),
                     widget.buttons, widget.cursor, "none")
    /\ call' = WidgetEvent("reset", "none", widget.cursor)
    /\ ncalls' = ncalls + 1
    /\ UNCHANGED <<args, pc, exc, mf, popRule, caller, gridObj, search>>

WidgetNext ==
    WidgetNew \/ MousePress \/ MouseDoubleClick \/ MouseMove \/ MouseRelease \/ WidgetNewGame
SpecWidget == WidgetInit /\ [][WidgetNext]_vars

\* One call of the widget on its controller.
CtrlrCall(op, coord) == [op |-> op, coord |-> coord]

\* The last event was sent to a widget with drag select off.
NoDragEvent == pc = "widget" /\ call # NoCall /\ ~widget.drag_select

\* The cell at coord, as the widget saw it before the last event, sinks when
\* pressed: it is Unclicked and the game is not finished.
Sinks(coord) == call.board[coord] = CellUnclicked /\ ~finished(call.before._game_state)

RaisesPrevious ==
    IF call.before.cursor \in call.before.sunken_cells
    THEN <<<<call.before.cursor, "btn_up">>>> ELSE <<>>

\* The images set when the cell the cursor enters is sunk, if it sinks.
SinksEntered ==
    IF call.coord # NoneCoord /\ Sinks(call.coord)
    THEN <<<<call.coord, "btn_down">>>> ELSE <<>>

\* C32: with drag select off and the left button held, a move of the cursor
\* to another cell raises the cell that was sunken and sinks the cell
\* entered, if it is unclicked, and sets no other cell image; a move within
\* the cell sets none; a move off the board only raises the sunken cell and a
\* move back onto the board only sinks the cell entered.
C32_LeftMove ==
    (NoDragEvent /\ call.op = "move" /\ call.before.gesture = "left") =>
        /\ widget.images = IF call.coord = call.before.cursor THEN <<>>
                           ELSE RaisesPrevious \o SinksEntered
        /\ widget.calls = <<>>
        /\ widget.sunken_cells = IF call.coord = call.before.cursor
                                 THEN call.before.sunken_cells
                                 ELSE {c \in {call.coord} : SinksEntered # <<>>}

\* C32 holds for the moves before which no cell but the one under the cursor
\* is sunken.
C32_WithoutStaleCells ==
    (call # NoCall /\ call.op = "move" /\ call.before.sunken_cells \subseteq {call.before.cursor})
        => C32_LeftMove

NoneSunkenAtRest == (pc = "widget" /\ widget.buttons = {}) => widget.sunken_cells = {}

\* Every sunken cell is a cell of the board that is Unclicked.
SunkenAreUnclicked ==
    pc = "widget" =>
        \A c \in widget.sunken_cells : c \in GameCoords /\ game.board[c] = CellUnclicked

\* C38: after any sequence of presses, moves, releases and double clicks,
\* with resets of the widget for a new game in between, the set of sunken
\* cells is empty whenever no mouse button is down, and every coordinate in
\* it is that of a cell Unclicked on the current board.
C38_SunkenCells == NoneSunkenAtRest /\ SunkenAreUnclicked

====
